---- MODULE Spec2Model ----
(***************************************************************************)
(* A model of the CD-ladder projection engine (utils/projectionLogic.js)   *)
(* and of the rate scenario resolver it uses.                              *)
(*                                                                         *)
(* Numbers.  The program computes in IEEE doubles; the model is in fixed   *)
(* point.  Money is counted in mills (1/1000 of a currency unit), so the   *)
(* program's 0.01 tolerance is 10 mills and amounts below the tolerance    *)
(* exist.  APYs are counted in 1/200 of a percentage point, which holds    *)
(* the rate table's tenths and the scenarios' interpolated 0.125 steps     *)
(* exactly: 3.6 % is 720, a fraction r / 20000.  A product of a money      *)
(* amount and a rate is rounded down to a whole mill.                      *)
(*                                                                         *)
(* Dates.  A Date is the number of months since year 0 (year * 12 + the    *)
(* zero-based month): getFullYear and addMonths need nothing finer.        *)
(***************************************************************************)
EXTENDS Integers, Sequences, FiniteSets, TLC

VARIABLES
    input,                  \* the argument object of calculateProjections, fixed over the runs
    reinvestmentCounter,    \* the module-level counter of generateReinvestId
    pc,                     \* "idle" (no call in progress) | "loop" (inside the year loop)
    run,                    \* the locals of the call in progress
    runs,                   \* history: what each completed call returned
    rateCall,               \* the resolver applied on its own: its arguments and result
    app                     \* the App component: its state hooks, id counters and pending effects

vars == <<input, reinvestmentCounter, pc, run, runs, rateCall, app>>

-----------------------------------------------------------------------------
(* Units *)

\* mills per currency unit
MoneyScale == 1000

\* rate units per percentage point
RateScale == 200

\* rate units per 1 (a fraction of one): 100 percentage points
RateOne == 100 * RateScale

\* the 0.01 of the program's comparisons, in mills
Tolerance == MoneyScale \div 100

Max(a, b) == IF a >= b THEN a ELSE b

Min(a, b) == IF a <= b THEN a ELSE b

Abs(a) == IF a < 0 THEN -a ELSE a

\* a JavaScript value that is a number
Num(v) == [isNum |-> TRUE, v |-> v]

\* a JavaScript value that is not a number (null, undefined)
NotNum == [isNum |-> FALSE, v |-> 0]

\* a JavaScript string, with what Number() makes of it: Num(n), or NotNum for NaN
Str(text, number) == [isNum |-> FALSE, v |-> 0, text |-> text, number |-> number]

IsString(x) == "text" \in DOMAIN x

\* Number(x) for a number or a string
ToNumber(x) == IF IsString(x) THEN x.number ELSE x

\* x === undefined || x === null || isNaN(Number(x)) (lines 133-134)
MissingOrNaN(x) == ~ToNumber(x).isNum

\* the undefined scenario argument
Undefined == "<undefined>"

\* the null Date
NoDate == -1

-----------------------------------------------------------------------------
(* Dates *)

\* a 'YYYY-MM-DD' string, by its year and its one-based month
DateStr(y, mo) == [ok |-> TRUE, y |-> y, mo |-> mo]

\* a date string parseISO rejects, and the empty string
BadDateStr == [ok |-> FALSE, y |-> 0, mo |-> 0]

parseDateString(dateString) ==
    IF ~dateString.ok THEN NoDate ELSE dateString.y * 12 + (dateString.mo - 1)

getFullYear(date) == date \div 12

getMonth(date) == date % 12

addMonths(date, months) == date + months

-----------------------------------------------------------------------------
(* Rate scenarios *)

RATE_SCENARIOS ==
    [k \in {"ratesStayHigh", "ratesFallModerately", "ratesFallSignificantly"} |->
        CASE k = "ratesStayHigh" ->
                [label |-> "Rates Stay High (Baseline)"]
          [] k = "ratesFallModerately" ->
                [label |-> "Rates Fall Moderately",
                 targetYearStartEffect |-> 2,
                 targetYearFullEffect |-> 3,
                 floor |-> RateScale \div 4,
                 adjustments |->
                    [t \in {"HYSA", "6m", "9m", "12m", "18m", "24m", "30m", "36m", "48m", "60m"} |->
                        IF t = "HYSA" THEN -(RateScale \div 2) ELSE -((3 * RateScale) \div 4)]]
          [] k = "ratesFallSignificantly" ->
                [label |-> "Rates Fall Significantly",
                 targetYearStartEffect |-> 1,
                 targetYearFullEffect |-> 2,
                 floor |-> RateScale \div 10,
                 adjustments |->
                    [t \in {"HYSA", "6m", "9m", "12m", "18m", "24m", "30m", "36m", "48m", "60m"} |->
                        IF t = "HYSA" THEN -((3 * RateScale) \div 2) ELSE -(2 * RateScale)]]]

\* property names every object literal inherits from Object.prototype: a lookup
\* RATE_SCENARIOS[k] of one of them yields a value that is truthy and has no
\* adjustments
InheritedKeys == {"constructor", "toString", "__proto__"}

\* a value returned by the resolver, or the TypeError it throws
Returned(v) == [threw |-> FALSE, value |-> v]

Threw == [threw |-> TRUE, value |-> 0]

\* scenarioConfig.adjustments[termKey] ?? scenarioConfig.adjustments['HYSA'] ?? 0
ScenarioAdjustment(scenarioConfig, termKey) ==
    IF termKey \in DOMAIN scenarioConfig.adjustments THEN scenarioConfig.adjustments[termKey]
    ELSE IF "HYSA" \in DOMAIN scenarioConfig.adjustments THEN scenarioConfig.adjustments["HYSA"]
    ELSE 0

\* ScenarioRate with the adjustment subtracted: a falling scenario raises rates
ScenarioRate_Rising(scenarioConfig, termKey, baseApy, yearsElapsed) ==
    LET targetApy == baseApy - ScenarioAdjustment(scenarioConfig, termKey)
    IN  IF yearsElapsed >= scenarioConfig.targetYearFullEffect - 1
            THEN Max(scenarioConfig.floor, targetApy)
            ELSE Max(scenarioConfig.floor, baseApy)

\* ScenarioRate returning the adjusted APY without Math.max(floor, ...)
ScenarioRate_NoFloor(scenarioConfig, termKey, baseApy, yearsElapsed) ==
    LET targetApy == baseApy + ScenarioAdjustment(scenarioConfig, termKey)
        startEffectElapsed == scenarioConfig.targetYearStartEffect - 1
        fullEffectElapsed == scenarioConfig.targetYearFullEffect - 1
    IN  IF yearsElapsed >= fullEffectElapsed THEN targetApy
        ELSE IF yearsElapsed >= startEffectElapsed /\ fullEffectElapsed > startEffectElapsed
            THEN baseApy + ((targetApy - baseApy) * (yearsElapsed - startEffectElapsed + 1))
                            \div (fullEffectElapsed - startEffectElapsed + 1)
            ELSE baseApy

\* ScenarioRate with the interpolation's progress doubled
ScenarioRate_Overshoot(scenarioConfig, termKey, baseApy, yearsElapsed) ==
    LET targetApy == baseApy + ScenarioAdjustment(scenarioConfig, termKey)
        startEffectElapsed == scenarioConfig.targetYearStartEffect - 1
        fullEffectElapsed == scenarioConfig.targetYearFullEffect - 1
    IN  IF yearsElapsed >= fullEffectElapsed THEN Max(scenarioConfig.floor, targetApy)
        ELSE IF yearsElapsed >= startEffectElapsed /\ fullEffectElapsed > startEffectElapsed
            THEN Max(scenarioConfig.floor,
                     baseApy + (2 * (targetApy - baseApy) * (yearsElapsed - startEffectElapsed + 1))
                                \div (fullEffectElapsed - startEffectElapsed + 1))
            ELSE Max(scenarioConfig.floor, baseApy)

\* ScenarioRate with the interpolation's progress starting at zero: no "+ 1"
ScenarioRate_LateProgress(scenarioConfig, termKey, baseApy, yearsElapsed) ==
    LET targetApy == baseApy + ScenarioAdjustment(scenarioConfig, termKey)
        startEffectElapsed == scenarioConfig.targetYearStartEffect - 1
        fullEffectElapsed == scenarioConfig.targetYearFullEffect - 1
    IN  IF yearsElapsed >= fullEffectElapsed THEN Max(scenarioConfig.floor, targetApy)
        ELSE IF yearsElapsed >= startEffectElapsed /\ fullEffectElapsed > startEffectElapsed
            THEN Max(scenarioConfig.floor,
                     baseApy + ((targetApy - baseApy) * (yearsElapsed - startEffectElapsed))
                                \div (fullEffectElapsed - startEffectElapsed + 1))
            ELSE Max(scenarioConfig.floor, baseApy)

\* the resolver past its baseline exits: target, timing, interpolation, floor
ScenarioRate(scenarioConfig, termKey, baseApy, yearsElapsed) ==
    LET adjustment == ScenarioAdjustment(scenarioConfig, termKey)
        targetApy == baseApy + adjustment
        floor == scenarioConfig.floor
        startEffectElapsed == scenarioConfig.targetYearStartEffect - 1
        fullEffectElapsed == scenarioConfig.targetYearFullEffect - 1
        adjustmentDuration == fullEffectElapsed - startEffectElapsed
        currentApy ==
            IF yearsElapsed >= fullEffectElapsed THEN targetApy
            ELSE IF yearsElapsed >= startEffectElapsed /\ adjustmentDuration > 0
                THEN baseApy + ((targetApy - baseApy) * (yearsElapsed - startEffectElapsed + 1))
                                \div (adjustmentDuration + 1)
                ELSE baseApy
    IN  Max(floor, currentApy)

getRateForYear(termKey, year, scenarioKey, baseRates, startYear) ==
    IF termKey \notin DOMAIN baseRates \/ ~baseRates[termKey].apy.isNum
        THEN Returned(0)
    ELSE IF scenarioKey = "ratesStayHigh" \/ scenarioKey \in {Undefined, ""}
        THEN Returned(baseRates[termKey].apy.v)
    ELSE IF scenarioKey \in InheritedKeys
        THEN Threw
    ELSE IF scenarioKey \notin DOMAIN RATE_SCENARIOS
        THEN Returned(baseRates[termKey].apy.v)
    ELSE Returned(ScenarioRate(RATE_SCENARIOS[scenarioKey], termKey,
                               baseRates[termKey].apy.v, year - startYear))

-----------------------------------------------------------------------------
(* Compound growth: principal * Math.pow(1 + apy, termMonths / 12) *)

RECURSIVE ISqrtBetween(_, _, _)
\* the largest r in lo..hi with r * r <= n, given lo * lo <= n
ISqrtBetween(n, lo, hi) ==
    IF lo >= hi THEN lo
    ELSE LET mid == (lo + hi + 1) \div 2
         IN  IF mid * mid <= n THEN ISqrtBetween(n, mid, hi)
                               ELSE ISqrtBetween(n, lo, mid - 1)

\* RateOne * sqrt(1 + apy / RateOne), rounded down: the growth factor of half a year
HalfYearFactor(apy) == ISqrtBetween(RateOne * (RateOne + apy), RateOne, 2 * RateOne)

RECURSIVE Compound(_, _, _)
\* whole years compound one at a time, a remaining half year by the square root;
\* the rate tables of this model hold durations that are multiples of six months
Compound(principal, apy, termMonths) ==
    IF termMonths >= 12
        THEN Compound((principal * (RateOne + apy)) \div RateOne, apy, termMonths - 12)
    ELSE IF termMonths >= 6
        THEN (principal * HalfYearFactor(apy)) \div RateOne
    ELSE principal

-----------------------------------------------------------------------------
(* calculateProjections: validation, initial tranches, year range *)

RECURSIVE SumOver(_, _)
\* array.reduce((sum, x) => sum + f(x), 0), the terms already taken
SumOver(amounts, n) ==
    IF n = 0 THEN 0 ELSE SumOver(amounts, n - 1) + amounts[n]

SeqSum(amounts) == SumOver(amounts, Len(amounts))

RECURSIVE FilterSeq(_, _)
\* array.filter(keep), keep given as the sequence of its verdicts
FilterSeq(s, keep) ==
    IF s = <<>> THEN <<>>
    ELSE (IF Head(keep) THEN <<Head(s)>> ELSE <<>>) \o FilterSeq(Tail(s), Tail(keep))

\* the guard of lines 133-143: a missing or non-numeric required input, or a start
\* date that does not parse; the error message returned, "" when the inputs pass
ValidationError(inp) ==
    IF ~inp.investmentStartDate.given \/ MissingOrNaN(inp.lumpSum) \/ MissingOrNaN(inp.taxRate)
        \/ ~inp.tranchesGiven \/ ~inp.withdrawalsGiven \/ ~inp.interestRatesGiven
        THEN "Missing or invalid required inputs (Date, Lump Sum, Tax Rate)"
    ELSE IF parseDateString(inp.investmentStartDate.text) = NoDate
        THEN "Invalid Investment Start Date"
    ELSE ""

parsedStart(inp) == parseDateString(inp.investmentStartDate.text)

startYear(inp) == getFullYear(parsedStart(inp))

startMonth(inp) == getMonth(parsedStart(inp))

\* the allocation mismatch of lines 152-156: a console warning, nothing else
allocationMismatch(inp) ==
    Abs(SeqSum([i \in 1..Len(inp.tranches) |-> inp.tranches[i].amount]) - ToNumber(inp.lumpSum).v) > Tolerance

\* TrancheThrows without the check of the duration (lines 181-183)
TrancheThrows_DurationUnchecked(tranche, interestRates) ==
    \/ tranche.term \notin DOMAIN interestRates
    \/ ~interestRates[tranche.term].apy.isNum

\* does the tranches.map callback throw on this row (lines 163-165, 181-183)
TrancheThrows(tranche, interestRates) ==
    \/ tranche.term \notin DOMAIN interestRates
    \/ ~interestRates[tranche.term].apy.isNum
    \/ /\ tranche.term # "HYSA"
       /\ \/ ~interestRates[tranche.term].duration.isNum
          \/ interestRates[tranche.term].duration.v <= 0

InitialTranchesThrow(inp) ==
    \E i \in 1..Len(inp.tranches) : TrancheThrows(inp.tranches[i], inp.interestRates)

\* the tranches.map callback on a row that passes; index is zero-based
InitialTranche(tranche, index, interestRates, start) ==
    LET rateInfo == interestRates[tranche.term]
        trancheId == IF tranche.id # "" THEN tranche.id
                     ELSE tranche.term \o "-" \o ToString(index)
        principal == tranche.amount
    IN  IF tranche.term = "HYSA"
        THEN [id |-> trancheId, amount |-> principal, term |-> tranche.term,
              termMonths |-> 0, maturityDate |-> NoDate,
              interestEarned |-> 0, valueAtMaturity |-> principal, isHYSA |-> TRUE,
              reinvestmentOption |-> tranche.reinvestmentOption,
              reinvestmentTerm |-> tranche.reinvestmentTerm]
        ELSE LET termMonths == rateInfo.duration.v
                 valueAtMaturity == Compound(principal, rateInfo.apy.v, termMonths)
             IN  [id |-> trancheId, amount |-> principal, term |-> tranche.term,
                  termMonths |-> termMonths,
                  maturityDate |-> addMonths(start, termMonths),
                  interestEarned |-> valueAtMaturity - principal,
                  valueAtMaturity |-> valueAtMaturity, isHYSA |-> FALSE,
                  reinvestmentOption |-> IF tranche.reinvestmentOption = "" THEN "cash"
                                         ELSE tranche.reinvestmentOption,
                  reinvestmentTerm |-> IF tranche.reinvestmentTerm = "" THEN "12m"
                                       ELSE tranche.reinvestmentTerm]

initialTranches(inp) ==
    [i \in 1..Len(inp.tranches) |->
        InitialTranche(inp.tranches[i], i - 1, inp.interestRates, parsedStart(inp))]

\* the year of a validly dated withdrawal, NoDate otherwise
withdrawalYear(w) ==
    IF parseDateString(w.date) = NoDate THEN NoDate ELSE getFullYear(parseDateString(w.date))

allYears(inp) ==
    {startYear(inp)}
    \cup ({withdrawalYear(inp.withdrawals[i]) : i \in 1..Len(inp.withdrawals)} \ {NoDate})
    \cup {getFullYear(initialTranches(inp)[i].maturityDate) :
            i \in {j \in 1..Len(inp.tranches) : initialTranches(inp)[j].maturityDate # NoDate}}

SetMin(S) == CHOOSE x \in S : \A y \in S : x <= y

SetMax(S) == CHOOSE x \in S : \A y \in S : x >= y

minYear(inp) == SetMin(allYears(inp))

maxInitialTerm(inp) ==
    SetMax({0} \cup {initialTranches(inp)[i].termMonths :
                        i \in {j \in 1..Len(inp.tranches) : ~initialTranches(inp)[j].isHYSA}})

\* Math.ceil(months / 12)
CeilYears(months) == (months + 11) \div 12

\* maxYear without the five years of lookahead
maxYear_NoBuffer(inp) ==
    Max(SetMax(allYears(inp)), startYear(inp) + CeilYears(maxInitialTerm(inp)))

maxYear(inp) ==
    Max(SetMax(allYears(inp)), startYear(inp) + CeilYears(maxInitialTerm(inp)) + 5)

hysaTranches(inp) ==
    FilterSeq(initialTranches(inp), [i \in 1..Len(inp.tranches) |-> initialTranches(inp)[i].isHYSA])

\* hysaTranchesDefined answering yes whatever the allocation rows
hysaTranchesDefined_Always(inp) == TRUE

\* hysaTranches.length > 0 (lines 275, 358): was a HYSA row among the allocations
hysaTranchesDefined(inp) == Len(hysaTranches(inp)) > 0

\* initialHysaBalance as what the declared total leaves once the CD rows are taken
initialHysaBalance_FromDeclaredTotal(inp) ==
    ToNumber(inp.lumpSum).v
    - SeqSum([i \in 1..Len(inp.tranches) |->
                IF initialTranches(inp)[i].isHYSA THEN 0 ELSE initialTranches(inp)[i].amount])

initialHysaBalance(inp) ==
    SeqSum([i \in 1..Len(hysaTranches(inp)) |-> hysaTranches(inp)[i].amount])

initialCdTranches(inp) ==
    FilterSeq(initialTranches(inp), [i \in 1..Len(inp.tranches) |-> ~initialTranches(inp)[i].isHYSA])

-----------------------------------------------------------------------------
(* calculateProjections: one iteration of the year loop *)

generateReinvestId(originalId, counter) ==
    originalId \o "-reinvest-" \o ToString(counter)

\* ReinvestTermInvalid without the checks of the duration
ReinvestTermInvalid_DurationUnchecked(reinvestTermKey, interestRates) ==
    \/ reinvestTermKey \notin DOMAIN interestRates
    \/ ~interestRates[reinvestTermKey].apy.isNum

\* the 'newCD' case finds no usable rate entry for the reinvestment term (line 288)
ReinvestTermInvalid(reinvestTermKey, interestRates) ==
    \/ reinvestTermKey \notin DOMAIN interestRates
    \/ ~interestRates[reinvestTermKey].apy.isNum
    \/ ~interestRates[reinvestTermKey].duration.isNum
    \/ interestRates[reinvestTermKey].duration.v <= 0

\* NewTranche inheriting the elections of the tranche it comes from
NewTranche_InheritsElection(cd, reinvestTermKey, newApy, interestRates, counter) ==
    [id |-> generateReinvestId(cd.id, counter),
     amount |-> cd.valueAtMaturity,
     term |-> reinvestTermKey,
     termMonths |-> interestRates[reinvestTermKey].duration.v,
     maturityDate |-> addMonths(cd.maturityDate, interestRates[reinvestTermKey].duration.v),
     interestEarned |->
        Compound(cd.valueAtMaturity, newApy, interestRates[reinvestTermKey].duration.v)
            - cd.valueAtMaturity,
     valueAtMaturity |->
        Compound(cd.valueAtMaturity, newApy, interestRates[reinvestTermKey].duration.v),
     isHYSA |-> FALSE,
     reinvestmentOption |-> cd.reinvestmentOption,
     reinvestmentTerm |-> cd.reinvestmentTerm]

\* NewTranche valued at the base table's APY of the term, whatever the scenario
NewTranche_AtBaseRate(cd, reinvestTermKey, newApy, interestRates, counter) ==
    [id |-> generateReinvestId(cd.id, counter),
     amount |-> cd.valueAtMaturity,
     term |-> reinvestTermKey,
     termMonths |-> interestRates[reinvestTermKey].duration.v,
     maturityDate |-> addMonths(cd.maturityDate, interestRates[reinvestTermKey].duration.v),
     interestEarned |->
        Compound(cd.valueAtMaturity, interestRates[reinvestTermKey].apy.v,
                 interestRates[reinvestTermKey].duration.v) - cd.valueAtMaturity,
     valueAtMaturity |->
        Compound(cd.valueAtMaturity, interestRates[reinvestTermKey].apy.v,
                 interestRates[reinvestTermKey].duration.v),
     isHYSA |-> FALSE,
     reinvestmentOption |-> "cash",
     reinvestmentTerm |-> "12m"]

\* the tranche pushed by the 'newCD' case (lines 306-328)
NewTranche(cd, reinvestTermKey, newApy, interestRates, counter) ==
    LET newPrincipal == cd.valueAtMaturity
        newTermMonths == interestRates[reinvestTermKey].duration.v
        newStartDate == cd.maturityDate
        newValueAtMaturity == Compound(newPrincipal, newApy, newTermMonths)
    IN  [id |-> generateReinvestId(cd.id, counter),
         amount |-> newPrincipal,
         term |-> reinvestTermKey,
         termMonths |-> newTermMonths,
         maturityDate |-> addMonths(newStartDate, newTermMonths),
         interestEarned |-> newValueAtMaturity - newPrincipal,
         valueAtMaturity |-> newValueAtMaturity,
         isHYSA |-> FALSE,
         reinvestmentOption |-> "cash",
         reinvestmentTerm |-> "12m"]

\* ShortfallBlocks comparing with zero, not with the tolerance
ShortfallBlocks_NoTolerance(cumulativeShortfall) == cumulativeShortfall > 0

\* is the carried shortfall one that blocks reinvestment (line 266)
ShortfallBlocks(cumulativeShortfall) == cumulativeShortfall > Tolerance

\* ToCash adding the principal only: the interest of the tranche goes nowhere
ToCash_PrincipalOnly(acc, cd) ==
    [acc EXCEPT !.cashFromMaturingThisYear = @ + cd.amount]

\* the maturing value goes to the cash pot
ToCash(acc, cd) ==
    [acc EXCEPT !.cashFromMaturingThisYear = @ + cd.valueAtMaturity]

\* the body of the loop over activeCdTranches (lines 255-347) for one tranche;
\* acc holds the loop's accumulators, the reinvestment counter and the ids it gave
ProcessCd(acc, cd, r, inp) ==
    IF acc.threw THEN acc
    ELSE IF ~(cd.maturityDate # NoDate /\ getFullYear(cd.maturityDate) = r.year)
        THEN [acc EXCEPT !.remainingCdTranches = Append(@, cd)]
    ELSE
        LET matured == [acc EXCEPT !.maturingValueTotalThisYear = @ + cd.valueAtMaturity,
                                   !.interestFromMaturingCDsThisYear = @ + cd.interestEarned,
                                   !.totalInterestEarnedCumulative = @ + cd.interestEarned]
        IN  IF ShortfallBlocks(r.cumulativeShortfall)
                THEN ToCash(matured, cd)
            ELSE IF cd.reinvestmentOption = "hysa"
                THEN IF r.hysaDefined
                        THEN [matured EXCEPT !.hysaValueReinvestedThisYear = @ + cd.valueAtMaturity]
                        ELSE ToCash(matured, cd)
            ELSE IF cd.reinvestmentOption = "newCD"
                THEN IF ReinvestTermInvalid(cd.reinvestmentTerm, inp.interestRates)
                        THEN ToCash(matured, cd)
                     ELSE LET rate == getRateForYear(cd.reinvestmentTerm, r.year, r.rateScenario,
                                                     inp.interestRates, r.startYear)
                              newTranche == NewTranche(cd, cd.reinvestmentTerm, rate.value,
                                                       inp.interestRates, matured.counter)
                          IN  IF rate.threw THEN [matured EXCEPT !.threw = TRUE]
                              ELSE [matured EXCEPT
                                        !.newlyReinvestedTranches = Append(@, newTranche),
                                        !.counter = @ + 1,
                                        !.beyondRange = @ \/
                                            getFullYear(newTranche.maturityDate) > r.maxYear]
            ELSE ToCash(matured, cd)

RECURSIVE ProcessCds(_, _, _, _)
ProcessCds(acc, cds, r, inp) ==
    IF cds = <<>> THEN acc
    ELSE ProcessCds(ProcessCd(acc, Head(cds), r, inp), Tail(cds), r, inp)

\* the accumulators as the loop over activeCdTranches starts (lines 248-253)
LoopStart(r, counter) ==
    [maturingValueTotalThisYear |-> 0, interestFromMaturingCDsThisYear |-> 0,
     cashFromMaturingThisYear |-> 0, newlyReinvestedTranches |-> <<>>,
     hysaValueReinvestedThisYear |-> 0, remainingCdTranches |-> <<>>,
     totalInterestEarnedCumulative |-> r.totalInterestEarnedCumulative,
     counter |-> counter, beyondRange |-> FALSE, threw |-> FALSE]

\* HysaInterest at the full annual rate in every year, the start year included
HysaInterest_FullYear(balance, apy, r) == (balance * apy) \div RateOne

\* hysaBalanceForInterestCalc * annualRate * interestFactor (lines 358-370)
HysaInterest(balance, apy, r) ==
    IF r.year = r.startYear
        THEN (balance * apy * (12 - r.startMonth)) \div (RateOne * 12)
        ELSE (balance * apy) \div RateOne

\* TaxesDue taking the tax rate for a fraction: without the division by 100
TaxesDue_RateAsFraction(totalYearlyInterest, inp) ==
    totalYearlyInterest * ToNumber(inp.taxRate).v

\* totalYearlyInterest * numTaxRate
TaxesDue(totalYearlyInterest, inp) ==
    (totalYearlyInterest * ToNumber(inp.taxRate).v) \div 100

\* WithdrawalsOfYear summing the withdrawals of the year and of the years before
\* it: a withdrawal is paid again in every later year
WithdrawalsOfYear_UpToYear(inp, year) ==
    SeqSum([i \in 1..Len(inp.withdrawals) |->
                IF withdrawalYear(inp.withdrawals[i]) # NoDate
                   /\ withdrawalYear(inp.withdrawals[i]) <= year
                THEN inp.withdrawals[i].amount ELSE 0])

\* the withdrawals of the year, summed (lines 383-388)
WithdrawalsOfYear(inp, year) ==
    SeqSum([i \in 1..Len(inp.withdrawals) |->
                IF withdrawalYear(inp.withdrawals[i]) # NoDate
                   /\ withdrawalYear(inp.withdrawals[i]) = year
                THEN inp.withdrawals[i].amount ELSE 0])

\* HysaCover with Math.max in the place of Math.min
HysaCover_Max(shortfallAmountThisYear, currentHysaBalance) ==
    IF shortfallAmountThisYear > 0 /\ currentHysaBalance > 0
        THEN Max(shortfallAmountThisYear, currentHysaBalance)
        ELSE 0

\* HysaCover drawing the whole shortfall whatever the balance
HysaCover_Overdraw(shortfallAmountThisYear, currentHysaBalance) ==
    IF shortfallAmountThisYear > 0 /\ currentHysaBalance > 0
        THEN shortfallAmountThisYear
        ELSE 0

\* the amount drawn from the HYSA to cover the year's shortfall (lines 403-408)
HysaCover(shortfallAmountThisYear, currentHysaBalance) ==
    IF shortfallAmountThisYear > 0 /\ currentHysaBalance > 0
        THEN Min(shortfallAmountThisYear, currentHysaBalance)
        ELSE 0

\* EndOfYearCash without the clamp at zero
EndOfYearCash_Unclamped(netCashFlow) == netCashFlow

\* Math.max(0, netCashFlowBeforeHysaTransfer) (line 415)
EndOfYearCash(netCashFlow) == Max(0, netCashFlow)

\* the principal of the tranches still running after the year (lines 425-428)
OngoingCDsPrincipal(activeCdTranches, year) ==
    SeqSum([i \in 1..Len(activeCdTranches) |->
                IF activeCdTranches[i].maturityDate # NoDate
                   /\ getFullYear(activeCdTranches[i].maturityDate) > year
                THEN activeCdTranches[i].amount ELSE 0])

\* ongoingCDsPrincipal + currentHysaBalance (line 431)
OngoingInvestmentsPrincipal(ongoingCDsPrincipal, currentHysaBalance) ==
    ongoingCDsPrincipal + currentHysaBalance

\* TotalPortfolioValue leaving the cash out
TotalPortfolioValue_NoCash(ongoingInvestmentsPrincipal, endOfYearCash) ==
    ongoingInvestmentsPrincipal

\* ongoingInvestmentsPrincipal + endOfYearCash (line 433)
TotalPortfolioValue(ongoingInvestmentsPrincipal, endOfYearCash) ==
    ongoingInvestmentsPrincipal + endOfYearCash

\* StartingCashForYear dropping the carried shortfall
StartingCashForYear_Dropped(cashBalance, cumulativeShortfall) == cashBalance

\* cashBalance - cumulativeShortfall (line 245)
StartingCashForYear(cashBalance, cumulativeShortfall) ==
    cashBalance - cumulativeShortfall

\* the tranches of the active list that mature in the year (line 257)
Maturing(activeCdTranches, year) ==
    FilterSeq(activeCdTranches,
              [i \in 1..Len(activeCdTranches) |->
                    activeCdTranches[i].maturityDate # NoDate
                    /\ getFullYear(activeCdTranches[i].maturityDate) = year])

\* cashAvailableStart as the record reports it (line 444)
ReportedCashAvailable(cashBalance, cashFromMaturingThisYear, hysaInterestThisYear) ==
    cashBalance + cashFromMaturingThisYear + hysaInterestThisYear

\* YearEndedWithShortfall comparing with zero, not with the tolerance
YearEndedWithShortfall_NoTolerance(shortfallAmountThisYear) == shortfallAmountThisYear > 0

\* does the year end with a shortfall (line 418)
YearEndedWithShortfall(shortfallAmountThisYear) == shortfallAmountThisYear > Tolerance

\* the loop over activeCdTranches of one year, from fresh accumulators
CdLoop(r, inp, counter) ==
    ProcessCds(LoopStart(r, counter), r.activeCdTranches, r, inp)

\* hysaInterestThisYear (lines 351-375): the resolver's rate applied to the balance
\* the year starts with, zero without a defined, positive HYSA balance
HysaInterestThisYear(r, inp) ==
    LET hysaRate == getRateForYear("HYSA", r.year, r.rateScenario, inp.interestRates,
                                   r.startYear)
    IN  IF r.hysaDefined /\ r.currentHysaBalance > 0
            THEN [threw |-> hysaRate.threw,
                  value |-> HysaInterest(r.currentHysaBalance, hysaRate.value, r)]
            ELSE Returned(0)

\* interest, taxes, withdrawals and the cash flow before any cover (lines 378-395)
CashFlowOfYear(r, inp, loop, hysaInterestThisYear) ==
    LET startingCashForYear == StartingCashForYear(r.cashBalance, r.cumulativeShortfall)
        totalYearlyInterest == loop.interestFromMaturingCDsThisYear + hysaInterestThisYear
        taxesDueThisYear == TaxesDue(totalYearlyInterest, inp)
        totalWithdrawalsThisYear == WithdrawalsOfYear(inp, r.year)
        cashAvailableThisYear ==
            startingCashForYear + loop.cashFromMaturingThisYear + hysaInterestThisYear
    IN  [startingCashForYear |-> startingCashForYear,
         totalYearlyInterest |-> totalYearlyInterest,
         taxesDueThisYear |-> taxesDueThisYear,
         totalWithdrawalsThisYear |-> totalWithdrawalsThisYear,
         cashAvailableThisYear |-> cashAvailableThisYear,
         netBefore |-> cashAvailableThisYear - totalWithdrawalsThisYear - taxesDueThisYear]

\* ShortfallCover on a balance that the year's interest was added to
ShortfallCover_InterestAccrued(r, loop, flow) ==
    LET hysaAfterInflow == r.currentHysaBalance + loop.hysaValueReinvestedThisYear
                           + (flow.totalYearlyInterest - loop.interestFromMaturingCDsThisYear)
        shortfallBefore == IF flow.netBefore < 0 THEN Abs(flow.netBefore) ELSE 0
        hysaWithdrawalToCoverShortfall == HysaCover(shortfallBefore, hysaAfterInflow)
    IN  [hysaAfterInflow |-> hysaAfterInflow,
         hysaWithdrawalToCoverShortfall |-> hysaWithdrawalToCoverShortfall,
         currentHysaBalance |-> hysaAfterInflow - hysaWithdrawalToCoverShortfall,
         netCashFlow |-> flow.netBefore + hysaWithdrawalToCoverShortfall,
         shortfallAmountThisYear |-> shortfallBefore - hysaWithdrawalToCoverShortfall]

\* the shortfall and its cover from the HYSA (lines 397-412)
ShortfallCover(r, loop, flow) ==
    LET hysaAfterInflow == r.currentHysaBalance + loop.hysaValueReinvestedThisYear
        shortfallBefore == IF flow.netBefore < 0 THEN Abs(flow.netBefore) ELSE 0
        hysaWithdrawalToCoverShortfall == HysaCover(shortfallBefore, hysaAfterInflow)
    IN  [hysaAfterInflow |-> hysaAfterInflow,
         hysaWithdrawalToCoverShortfall |-> hysaWithdrawalToCoverShortfall,
         currentHysaBalance |-> hysaAfterInflow - hysaWithdrawalToCoverShortfall,
         netCashFlow |-> flow.netBefore + hysaWithdrawalToCoverShortfall,
         shortfallAmountThisYear |-> shortfallBefore - hysaWithdrawalToCoverShortfall]

\* the year's record (lines 436-457)
YearRecord(r, loop, hysaInterestThisYear, flow, cover, endOfYearCash, ongoingCDsPrincipal) ==
    [year |-> r.year,
     maturingValue |-> loop.maturingValueTotalThisYear,
     reinvestedValue |-> loop.hysaValueReinvestedThisYear
        + SeqSum([i \in 1..Len(loop.newlyReinvestedTranches) |->
                    loop.newlyReinvestedTranches[i].amount]),
     yearlyInterest |-> flow.totalYearlyInterest,
     interestFromCDs |-> loop.interestFromMaturingCDsThisYear,
     interestFromHYSA |-> hysaInterestThisYear,
     taxesDue |-> flow.taxesDueThisYear,
     cashAvailableStart |-> ReportedCashAvailable(r.cashBalance,
                                loop.cashFromMaturingThisYear, hysaInterestThisYear),
     hysaWithdrawalToCoverShortfall |-> cover.hysaWithdrawalToCoverShortfall,
     withdrawalAmount |-> flow.totalWithdrawalsThisYear,
     netCashFlowYear |-> endOfYearCash - r.cashBalance,
     endOfYearCash |-> endOfYearCash,
     ongoingCDInvestments |-> ongoingCDsPrincipal,
     endOfYearHysaBalance |-> cover.currentHysaBalance,
     ongoingInvestmentsTotal |->
        OngoingInvestmentsPrincipal(ongoingCDsPrincipal, cover.currentHysaBalance),
     totalPortfolioValue |->
        TotalPortfolioValue(
            OngoingInvestmentsPrincipal(ongoingCDsPrincipal, cover.currentHysaBalance),
            endOfYearCash),
     hasShortfall |-> YearEndedWithShortfall(cover.shortfallAmountThisYear),
     yearEndShortfallAmount |-> cover.shortfallAmountThisYear]

\* the iteration's own values, kept for the properties of a year
IterationLocals(r, loop, flow, cover) ==
    [year |-> r.year,
     carriedShortfall |-> r.cumulativeShortfall,
     maturing |-> Maturing(r.activeCdTranches, r.year),
     cashBalanceIn |-> r.cashBalance,
     startingCashForYear |-> flow.startingCashForYear,
     cashFromMaturingThisYear |-> loop.cashFromMaturingThisYear,
     hysaValueReinvestedThisYear |-> loop.hysaValueReinvestedThisYear,
     newlyReinvestedTranches |-> loop.newlyReinvestedTranches,
     hysaBalanceIn |-> r.currentHysaBalance,
     hysaBeforeCover |-> cover.hysaAfterInflow,
     cashAvailableThisYear |-> flow.cashAvailableThisYear,
     netBefore |-> flow.netBefore,
     netCashFlow |-> cover.netCashFlow,
     beyondRange |-> loop.beyondRange]

\* the end of the iteration (lines 415-461): cash, flag, principal still invested,
\* the record pushed and the values carried to the next year
YearEnd(r, loop, hysa, flow, cover, activeCdTranches) ==
    [threw |-> loop.threw \/ hysa.threw,
     counter |-> loop.counter,
     locals |->
        [rateScenario |-> r.rateScenario,
         startYear |-> r.startYear,
         startMonth |-> r.startMonth,
         maxYear |-> r.maxYear,
         hysaDefined |-> r.hysaDefined,
         year |-> r.year + 1,
         cashBalance |-> EndOfYearCash(cover.netCashFlow),
         cumulativeShortfall |-> cover.shortfallAmountThisYear,
         currentHysaBalance |-> cover.currentHysaBalance,
         activeCdTranches |-> activeCdTranches,
         projection |->
            Append(r.projection,
                   YearRecord(r, loop, hysa.value, flow, cover,
                              EndOfYearCash(cover.netCashFlow),
                              OngoingCDsPrincipal(activeCdTranches, r.year))),
         totalInterestEarnedCumulative |-> loop.totalInterestEarnedCumulative + hysa.value,
         totalTaxesPaidCumulative |-> r.totalTaxesPaidCumulative + flow.taxesDueThisYear,
         hasShortfallOverall |->
            r.hasShortfallOverall \/ YearEndedWithShortfall(cover.shortfallAmountThisYear),
         newIds |-> r.newIds \o [i \in 1..Len(loop.newlyReinvestedTranches) |->
                                    loop.newlyReinvestedTranches[i].id],
         it |-> IterationLocals(r, loop, flow, cover)]]

\* YearAfterFlows leaving out of the active list the created tranches that mature
\* after the last simulated year
YearAfterFlows_BeyondRangeDropped(r, loop, hysa, flow) ==
    YearEnd(r, loop, hysa, flow, ShortfallCover(r, loop, flow),
            loop.remainingCdTranches
            \o FilterSeq(loop.newlyReinvestedTranches,
                         [k \in 1..Len(loop.newlyReinvestedTranches) |->
                            getFullYear(loop.newlyReinvestedTranches[k].maturityDate)
                                <= r.maxYear]))

\* the iteration once the cash flow of the year is known
YearAfterFlows(r, loop, hysa, flow) ==
    YearEnd(r, loop, hysa, flow, ShortfallCover(r, loop, flow),
            loop.remainingCdTranches \o loop.newlyReinvestedTranches)

\* the iteration once the loop over the tranches is over
YearAfterLoop(r, inp, loop, hysa) ==
    YearAfterFlows(r, loop, hysa, CashFlowOfYear(r, inp, loop, hysa.value))

\* one iteration of the loop of line 240 on the locals r: the locals after it, with
\* the iteration's own values kept in `it`, and the reinvestment counter after it
YearIteration(r, inp, counter) ==
    YearAfterLoop(r, inp, CdLoop(r, inp, counter), HysaInterestThisYear(r, inp))

-----------------------------------------------------------------------------
(* calculateProjections as a state machine: the call, the year loop, the return *)

\* the locals while no call is in progress
IdleRun ==
    [rateScenario |-> "", startYear |-> 0, startMonth |-> 0, maxYear |-> 0,
     hysaDefined |-> FALSE, year |-> 0, cashBalance |-> 0, cumulativeShortfall |-> 0,
     currentHysaBalance |-> 0, activeCdTranches |-> <<>>, projection |-> <<>>,
     totalInterestEarnedCumulative |-> 0, totalTaxesPaidCumulative |-> 0,
     hasShortfallOverall |-> FALSE, newIds |-> <<>>, it |-> [year |-> 0]]

\* FirstLocals with the cumulative interest kept at module level, like the
\* reinvestment counter: a call starts from the total of the call before it
FirstLocals_KeptTotal(inp, rateScenario) ==
    [rateScenario |-> rateScenario,
     startYear |-> startYear(inp),
     startMonth |-> startMonth(inp),
     maxYear |-> maxYear(inp),
     hysaDefined |-> hysaTranchesDefined(inp),
     year |-> minYear(inp),
     cashBalance |-> 0,
     cumulativeShortfall |-> 0,
     currentHysaBalance |-> initialHysaBalance(inp),
     activeCdTranches |-> initialCdTranches(inp),
     projection |-> <<>>,
     totalInterestEarnedCumulative |->
        IF runs # <<>> /\ runs[Len(runs)].outcome = "ok"
            THEN runs[Len(runs)].result.totals.totalInterestEarned ELSE 0,
     totalTaxesPaidCumulative |-> 0,
     hasShortfallOverall |-> FALSE,
     newIds |-> <<>>,
     it |-> [year |-> 0]]

\* the locals as the year loop starts (lines 124-129, 232-236)
FirstLocals(inp, rateScenario) ==
    [rateScenario |-> rateScenario,
     startYear |-> startYear(inp),
     startMonth |-> startMonth(inp),
     maxYear |-> maxYear(inp),
     hysaDefined |-> hysaTranchesDefined(inp),
     year |-> minYear(inp),
     cashBalance |-> 0,
     cumulativeShortfall |-> 0,
     currentHysaBalance |-> initialHysaBalance(inp),
     activeCdTranches |-> initialCdTranches(inp),
     projection |-> <<>>,
     totalInterestEarnedCumulative |-> 0,
     totalTaxesPaidCumulative |-> 0,
     hasShortfallOverall |-> FALSE,
     newIds |-> <<>>,
     it |-> [year |-> 0]]

NoTotals == [present |-> FALSE]

\* the object returned by the validation guard
ErrorResult(message) ==
    [projectionYears |-> <<>>, hasShortfall |-> FALSE, totals |-> NoTotals, error |-> message]

\* finalTotals (lines 468-476)
FinalTotals(r, inp) ==
    [present |-> TRUE,
     totalInterestEarned |-> r.totalInterestEarnedCumulative,
     totalTaxesPaid |-> r.totalTaxesPaidCumulative,
     totalInterestAfterTax |-> r.totalInterestEarnedCumulative - r.totalTaxesPaidCumulative,
     finalPortfolioValue |->
        IF Len(r.projection) > 0
            THEN r.projection[Len(r.projection)].totalPortfolioValue
            ELSE initialHysaBalance(inp)
                 + SeqSum([i \in 1..Len(initialCdTranches(inp)) |-> initialCdTranches(inp)[i].amount])]

\* the object returned after the loop (lines 479-483)
SuccessResult(r, inp) ==
    [projectionYears |-> r.projection, hasShortfall |-> r.hasShortfallOverall,
     totals |-> FinalTotals(r, inp), error |-> ""]

\* one completed call, as the history keeps it: the scenario it ran under, the
\* declared total it was given, how it ended ("ok", "error": the guard's result,
\* "threw": an exception), what it returned and the ids it gave to reinvested tranches
Completed(rateScenario, outcome, result, newIds) ==
    [rateScenario |-> rateScenario, lumpSum |-> input.lumpSum, outcome |-> outcome,
     result |-> result, newIds |-> newIds]

\* the default of the rateScenario parameter (line 122)
ScenarioParameter(scenarioArg) ==
    IF scenarioArg = Undefined THEN "ratesStayHigh" ELSE scenarioArg

\* how many calls one process makes in this model
MaxRuns == 2

\* the App component is not mounted: the engine is driven directly
NoApp == [mounted |-> FALSE]

\* calculateProjections is called: lines 115-236
Call(scenarioArg) ==
    /\ pc = "idle"
    /\ Len(runs) < MaxRuns
    /\ LET rateScenario == ScenarioParameter(scenarioArg)
       IN  IF ValidationError(input) # ""
               THEN /\ runs' = Append(runs, Completed(rateScenario, "error",
                                            ErrorResult(ValidationError(input)), <<>>))
                    /\ UNCHANGED <<pc, run>>
           ELSE IF InitialTranchesThrow(input)
               THEN /\ runs' = Append(runs, Completed(rateScenario, "threw",
                                            ErrorResult("exception"), <<>>))
                    /\ UNCHANGED <<pc, run>>
           ELSE /\ pc' = "loop"
                /\ run' = FirstLocals(input, rateScenario)
                /\ UNCHANGED runs
    /\ UNCHANGED <<input, reinvestmentCounter, rateCall, app>>

\* one iteration of the year loop: lines 240-465
YearStep ==
    /\ pc = "loop"
    /\ run.year <= run.maxYear
    /\ LET res == YearIteration(run, input, reinvestmentCounter)
       IN  /\ reinvestmentCounter' = res.counter
           /\ IF res.threw
                 THEN /\ runs' = Append(runs, Completed(run.rateScenario, "threw",
                                              ErrorResult("exception"), <<>>))
                      /\ pc' = "idle"
                      /\ run' = IdleRun
                 ELSE /\ run' = res.locals
                      /\ UNCHANGED <<pc, runs>>
    /\ UNCHANGED <<input, rateCall, app>>

\* the loop is over: totals and return, lines 467-483
Return ==
    /\ pc = "loop"
    /\ run.year > run.maxYear
    /\ runs' = Append(runs, Completed(run.rateScenario, "ok", SuccessResult(run, input),
                                      run.newIds))
    /\ pc' = "idle"
    /\ run' = IdleRun
    /\ UNCHANGED <<input, reinvestmentCounter, rateCall, app>>

-----------------------------------------------------------------------------
(* The inputs of the model *)

\* the rate table: rows of App.js's DEFAULT_INTEREST_RATES (no '9m' row)
InterestRates ==
    [t \in {"HYSA", "6m", "12m", "24m"} |->
        CASE t = "HYSA" -> [duration |-> NotNum, apy |-> Num((36 * RateScale) \div 10)]
          [] t = "6m"   -> [duration |-> Num(6), apy |-> Num((38 * RateScale) \div 10)]
          [] t = "12m"  -> [duration |-> Num(12), apy |-> Num(4 * RateScale)]
          [] t = "24m"  -> [duration |-> Num(24), apy |-> Num((35 * RateScale) \div 10)]]

\* allocation rows, without their ids
TrancheRows ==
    {[amount |-> 8 * MoneyScale, term |-> "HYSA", reinvestmentOption |-> "",
      reinvestmentTerm |-> ""]}
    \cup {[amount |-> 10 * MoneyScale, term |-> t, reinvestmentOption |-> o[1],
           reinvestmentTerm |-> o[2]] :
            t \in {"6m", "12m"},
            o \in {<<"cash", "12m">>, <<"hysa", "12m">>, <<"newCD", "6m">>,
                   <<"newCD", "12m">>, <<"newCD", "9m">>}}

\* withdrawals, without their ids
WithdrawalRows ==
    {[date |-> BadDateStr, amount |-> 4 * MoneyScale]}
    \cup {[date |-> DateStr(y, 9), amount |-> a] :
            y \in {2024, 2025, 2026}, a \in {5, 4 * MoneyScale, 16 * MoneyScale}}

\* how many allocation rows and withdrawals an input holds at most
MaxTranches == 2

MaxWithdrawals == 1

\* rows with the ids the form gives them
WithIds(rows, prefix) ==
    [i \in 1..Len(rows) |-> [id |-> prefix \o ToString(i - 1)] @@ rows[i]]

SeqsUpTo(S, n) == UNION {[1..k -> S] : k \in 0..n}

Inputs ==
    {[investmentStartDate |-> [given |-> TRUE, text |-> d],
      lumpSum |-> Num(20 * MoneyScale),
      taxRate |-> Num(tax),
      tranches |-> WithIds(ts, "tranche-"), tranchesGiven |-> TRUE,
      withdrawals |-> WithIds(ws, "withdrawal-"), withdrawalsGiven |-> TRUE,
      interestRates |-> InterestRates, interestRatesGiven |-> TRUE] :
        d \in {DateStr(2025, 1), DateStr(2025, 7)},
        tax \in {25},
        ts \in SeqsUpTo(TrancheRows, MaxTranches),
        ws \in SeqsUpTo(WithdrawalRows, MaxWithdrawals)}

\* the scenario arguments of the calls
ScenarioArgs == {Undefined, "ratesStayHigh", "ratesFallModerately", "ratesFallSignificantly"}

NoRateCall == [applied |-> FALSE]

\* the input with no allocation and no withdrawal: what `input` holds while the
\* resolver is applied on its own
UnallocatedInput ==
    [investmentStartDate |-> [given |-> TRUE, text |-> DateStr(2025, 1)],
     lumpSum |-> Num(20 * MoneyScale),
     taxRate |-> Num(25),
     tranches |-> <<>>, tranchesGiven |-> TRUE,
     withdrawals |-> <<>>, withdrawalsGiven |-> TRUE,
     interestRates |-> InterestRates, interestRatesGiven |-> TRUE]

Init ==
    /\ input \in Inputs
    /\ reinvestmentCounter = 0
    /\ pc = "idle"
    /\ run = IdleRun
    /\ runs = <<>>
    /\ app = NoApp
    /\ rateCall = NoRateCall

Next ==
    \/ \E scenarioArg \in ScenarioArgs : Call(scenarioArg)
    \/ YearStep
    \/ Return

Spec == Init /\ [][Next]_vars

-----------------------------------------------------------------------------
(* The rate resolver applied on its own *)

\* a caller's rate table with a term no scenario adjusts ('3m'), an APY below the
\* scenarios' floors ('6m') and an entry whose APY is not a number ('12m')
CustomRates ==
    [t \in {"HYSA", "3m", "6m", "12m"} |->
        CASE t = "HYSA" -> [duration |-> NotNum, apy |-> Num(RateScale)]
          [] t = "3m"   -> [duration |-> Num(3), apy |-> Num(3 * RateScale)]
          [] t = "6m"   -> [duration |-> Num(6), apy |-> Num(RateScale \div 20)]
          [] t = "12m"  -> [duration |-> Num(12), apy |-> NotNum]]

RateTables == {InterestRates, CustomRates}

\* the scenario keys a caller may pass: the three configured ones, none, the empty
\* string, a key that names nothing and keys that name inherited properties
ScenarioKeys == ScenarioArgs \cup {"", "ratesRise"} \cup InheritedKeys

\* how many years after the start year the resolver is asked about
MaxYearsElapsed == 4

RateCalls ==
    {[applied |-> FALSE, termKey |-> t, year |-> y, scenarioKey |-> k, baseRates |-> b,
      startYear |-> 2025, result |-> Returned(0)] :
        t \in {"HYSA", "3m", "6m", "9m", "12m", "24m"},
        y \in 2024..(2025 + MaxYearsElapsed),
        k \in ScenarioKeys,
        b \in RateTables}

InitRate ==
    /\ rateCall \in RateCalls
    /\ input = UnallocatedInput
    /\ reinvestmentCounter = 0
    /\ pc = "idle"
    /\ run = IdleRun
    /\ runs = <<>>
    /\ app = NoApp

ApplyRate ==
    /\ ~rateCall.applied
    /\ rateCall' = [rateCall EXCEPT
                        !.applied = TRUE,
                        !.result = getRateForYear(rateCall.termKey, rateCall.year,
                                        rateCall.scenarioKey, rateCall.baseRates,
                                        rateCall.startYear)]
    /\ UNCHANGED <<input, reinvestmentCounter, pc, run, runs, app>>

NextRate == ApplyRate

SpecRate == InitRate /\ [][NextRate]_vars

-----------------------------------------------------------------------------
(* The resolver's scenario arithmetic (lines 87-109) applied to a scenario config *)

\* a scenario config of the shape of RATE_SCENARIOS' entries
Scenario(label, startEffect, fullEffect, floor, adjustments) ==
    [label |-> label, targetYearStartEffect |-> startEffect,
     targetYearFullEffect |-> fullEffect, floor |-> floor, adjustments |-> adjustments]

\* the two configured falling scenarios, and configs of the same shape: an effect
\* window of three years, a rising one, windows of zero and of negative length, and
\* adjustments that name neither the term nor 'HYSA'
ScenarioConfigs ==
    {RATE_SCENARIOS[k] : k \in DOMAIN RATE_SCENARIOS \ {"ratesStayHigh"}}
    \cup {Scenario("Three Years", 1, 3, RateScale \div 4,
                   [t \in {"HYSA", "12m"} |->
                        IF t = "HYSA" THEN -((3 * RateScale) \div 2) ELSE -(3 * RateScale)]),
          Scenario("Rising", 1, 3, RateScale \div 4,
                   [t \in {"HYSA"} |-> (3 * RateScale) \div 2]),
          Scenario("Step", 2, 2, RateScale \div 4,
                   [t \in {"HYSA"} |-> -RateScale]),
          Scenario("Backwards", 3, 2, RateScale \div 4,
                   [t \in {"HYSA"} |-> -RateScale]),
          Scenario("Six Months Only", 2, 3, RateScale \div 10,
                   [t \in {"6m"} |-> -RateScale])}

\* the arguments of the scenario arithmetic: a base APY below the floors (0.05), 3.0
\* and 3.6; years from the one before the start year on
ScenarioCalls ==
    {[applied |-> FALSE, scenarioConfig |-> c, termKey |-> t, baseApy |-> b,
      yearsElapsed |-> e, result |-> 0] :
        c \in ScenarioConfigs,
        t \in {"HYSA", "6m", "12m"},
        b \in {RateScale \div 20, 3 * RateScale, (36 * RateScale) \div 10},
        e \in (-1)..MaxYearsElapsed}

InitScenario ==
    /\ rateCall \in ScenarioCalls
    /\ input = UnallocatedInput
    /\ reinvestmentCounter = 0
    /\ pc = "idle"
    /\ run = IdleRun
    /\ runs = <<>>
    /\ app = NoApp

ApplyScenario ==
    /\ ~rateCall.applied
    /\ rateCall' = [rateCall EXCEPT
                        !.applied = TRUE,
                        !.result = ScenarioRate(rateCall.scenarioConfig, rateCall.termKey,
                                                rateCall.baseApy, rateCall.yearsElapsed)]
    /\ UNCHANGED <<input, reinvestmentCounter, pc, run, runs, app>>

NextScenario == ApplyScenario

SpecScenario == InitScenario /\ [][NextScenario]_vars

-----------------------------------------------------------------------------
(* Inputs at the edges: missing fields, rows and elections the rate table cannot serve *)

\* a caller's rate table: usable entries, one of them of six years, an entry whose
\* APY is not a number, one of duration 0 and one whose duration is not a number
EdgeRates ==
    [t \in {"HYSA", "6m", "12m", "72m", "noApy", "zero", "noDuration"} |->
        CASE t = "HYSA"       -> [duration |-> NotNum, apy |-> Num((36 * RateScale) \div 10)]
          [] t = "6m"         -> [duration |-> Num(6), apy |-> Num((38 * RateScale) \div 10)]
          [] t = "12m"        -> [duration |-> Num(12), apy |-> Num(4 * RateScale)]
          [] t = "72m"        -> [duration |-> Num(72), apy |-> Num((35 * RateScale) \div 10)]
          [] t = "noApy"      -> [duration |-> Num(12), apy |-> NotNum]
          [] t = "zero"       -> [duration |-> Num(0), apy |-> Num(4 * RateScale)]
          [] t = "noDuration" -> [duration |-> NotNum, apy |-> Num(4 * RateScale)]]

\* the terms of rows and elections: those of EdgeRates and '9m', which it lacks
EdgeTerms == {"9m", "noApy", "zero", "noDuration"}

\* allocation rows: usable ones, rows of terms the table cannot serve, and rows
\* electing a new CD of such a term or of six years
EdgeRows ==
    {[amount |-> 8 * MoneyScale, term |-> "HYSA", reinvestmentOption |-> "",
      reinvestmentTerm |-> ""],
     [amount |-> 10 * MoneyScale, term |-> "12m", reinvestmentOption |-> "cash",
      reinvestmentTerm |-> "12m"]}
    \cup {[amount |-> 10 * MoneyScale, term |-> t, reinvestmentOption |-> "cash",
           reinvestmentTerm |-> "12m"] : t \in EdgeTerms}
    \cup {[amount |-> 10 * MoneyScale, term |-> "6m", reinvestmentOption |-> "newCD",
           reinvestmentTerm |-> t] : t \in EdgeTerms \cup {"12m", "72m"}}

\* a well-formed input over EdgeRates
EdgeInput(d, ts, ws) ==
    [investmentStartDate |-> [given |-> TRUE, text |-> d],
     lumpSum |-> Num(20 * MoneyScale),
     taxRate |-> Num(25),
     tranches |-> WithIds(ts, "tranche-"), tranchesGiven |-> TRUE,
     withdrawals |-> WithIds(ws, "withdrawal-"), withdrawalsGiven |-> TRUE,
     interestRates |-> EdgeRates, interestRatesGiven |-> TRUE]

\* the well-formed input with one required field missing or not usable: the start
\* date absent or unparseable, the lump sum or the tax rate null, a string that is no
\* number, the empty string or a numeric string, or a list or the table absent
BrokenInputs ==
    LET good == EdgeInput(DateStr(2025, 1),
                          <<[amount |-> 10 * MoneyScale, term |-> "6m",
                             reinvestmentOption |-> "newCD", reinvestmentTerm |-> "12m"]>>,
                          <<>>)
    IN  {[good EXCEPT !.investmentStartDate.given = FALSE],
         [good EXCEPT !.investmentStartDate.text = BadDateStr],
         [good EXCEPT !.tranchesGiven = FALSE],
         [good EXCEPT !.withdrawalsGiven = FALSE],
         [good EXCEPT !.interestRatesGiven = FALSE]}
        \cup {[good EXCEPT !.lumpSum = x] :
                x \in {NotNum, Str("abc", NotNum), Str("", Num(0)),
                       Str("10", Num(10 * MoneyScale))}}
        \cup {[good EXCEPT !.taxRate = x] :
                x \in {NotNum, Str("abc", NotNum), Str("", Num(0)), Str("25", Num(25))}}

EdgeInputs ==
    {EdgeInput(d, ts, ws) :
        d \in {DateStr(2025, 1), DateStr(2025, 7)},
        ts \in SeqsUpTo(EdgeRows, MaxTranches),
        ws \in {<<>>, <<[date |-> BadDateStr, amount |-> 4 * MoneyScale]>>,
                <<[date |-> DateStr(2033, 3), amount |-> 4 * MoneyScale]>>}}
    \cup BrokenInputs

InitEdge ==
    /\ input \in EdgeInputs
    /\ reinvestmentCounter = 0
    /\ pc = "idle"
    /\ run = IdleRun
    /\ runs = <<>>
    /\ app = NoApp
    /\ rateCall = NoRateCall

SpecEdge == InitEdge /\ [][Next]_vars

-----------------------------------------------------------------------------
(* Properties of the year records *)

\* a year record has just been pushed
Emitted == pc = "loop" /\ Len(run.projection) > 0

\* the record pushed last, and the one before it
LastRecord == run.projection[Len(run.projection)]

PreviousRecord == run.projection[Len(run.projection) - 1]

\* the shortfall of the iteration before the HYSA covers any of it (lines 398-401)
ShortfallBeforeCover == IF run.it.netBefore < 0 THEN -run.it.netBefore ELSE 0

\* C1: in every year record, end-of-year cash plus the end-of-year HYSA balance plus
\* the principal of the ongoing CDs is the record's total portfolio value, within
\* the tolerance
C1_Conservation ==
    Emitted =>
        Abs(LastRecord.endOfYearCash + LastRecord.endOfYearHysaBalance
            + LastRecord.ongoingCDInvestments - LastRecord.totalPortfolioValue) <= Tolerance

\* a record whose three parts are all positive
C1_Witness ==
    /\ Emitted
    /\ LastRecord.endOfYearCash > Tolerance
    /\ LastRecord.endOfYearHysaBalance > Tolerance
    /\ LastRecord.ongoingCDInvestments > Tolerance

\* C2: end-of-year cash is never negative and is max(0, net flow after the HYSA
\* cover); cash and an unresolved shortfall never appear in the same record; the
\* cash balance carried into a year is never negative
C2_CashNeverNegative ==
    /\ run.cashBalance >= 0
    /\ Emitted =>
        /\ LastRecord.endOfYearCash >= 0
        /\ LastRecord.endOfYearCash = Max(0, run.it.netCashFlow)
        /\ ~(LastRecord.endOfYearCash > 0 /\ LastRecord.yearEndShortfallAmount > 0)
        /\ run.cashBalance = LastRecord.endOfYearCash

\* a year that ends with a deficit the HYSA could not cover
C2_Witness ==
    /\ Emitted
    /\ run.it.netCashFlow < 0
    /\ LastRecord.yearEndShortfallAmount > 0
    /\ LastRecord.endOfYearCash = 0

\* C3: when the net flow before the HYSA cover is negative and the HYSA balance at
\* that point is at least the shortfall, the year ends with a shortfall amount of
\* exactly 0, its flag is false and no shortfall is carried into the next year
C3_CoveredShortfallIsZero ==
    (Emitted /\ run.it.netBefore < 0 /\ run.it.hysaBeforeCover >= ShortfallBeforeCover) =>
        /\ LastRecord.yearEndShortfallAmount = 0
        /\ ~LastRecord.hasShortfall
        /\ run.cumulativeShortfall = 0

\* a year whose shortfall the HYSA covers in full, part of the balance being this
\* year's reinvested value
C3_Witness ==
    /\ Emitted
    /\ run.it.netBefore < -Tolerance
    /\ run.it.hysaBeforeCover >= ShortfallBeforeCover
    /\ run.it.hysaValueReinvestedThisYear > 0
    /\ LastRecord.hysaWithdrawalToCoverShortfall = ShortfallBeforeCover

\* C4: the amount drawn from the HYSA is min(shortfall, balance) when the net flow is
\* negative and the balance positive, and 0 otherwise; the balance falls by exactly
\* that amount and is never negative; the year-end shortfall is the shortfall less
\* the amount drawn
C4_HysaCoverIsMin ==
    /\ run.currentHysaBalance >= 0
    /\ Emitted =>
        /\ LastRecord.hysaWithdrawalToCoverShortfall =
                IF run.it.netBefore < 0 /\ run.it.hysaBeforeCover > 0
                    THEN Min(ShortfallBeforeCover, run.it.hysaBeforeCover)
                    ELSE 0
        /\ LastRecord.endOfYearHysaBalance =
                run.it.hysaBeforeCover - LastRecord.hysaWithdrawalToCoverShortfall
        /\ run.currentHysaBalance = LastRecord.endOfYearHysaBalance
        /\ LastRecord.yearEndShortfallAmount =
                ShortfallBeforeCover - LastRecord.hysaWithdrawalToCoverShortfall

\* a year whose shortfall exceeds the HYSA balance: the balance is drawn to zero
C4_Witness ==
    /\ Emitted
    /\ run.it.hysaBeforeCover > 0
    /\ ShortfallBeforeCover > run.it.hysaBeforeCover
    /\ LastRecord.hysaWithdrawalToCoverShortfall = run.it.hysaBeforeCover
    /\ LastRecord.endOfYearHysaBalance = 0

\* C5: between two consecutive records, cash net of the unresolved shortfall moves
\* by the year's flows only: the shortfall left by year Y is deducted once from
\* year Y+1's starting cash
C5_ShortfallCarriedOnce ==
    (Emitted /\ Len(run.projection) >= 2) =>
        LastRecord.endOfYearCash - LastRecord.yearEndShortfallAmount =
            PreviousRecord.endOfYearCash - PreviousRecord.yearEndShortfallAmount
            + run.it.cashFromMaturingThisYear + LastRecord.interestFromHYSA
            - LastRecord.withdrawalAmount - LastRecord.taxesDue
            + LastRecord.hysaWithdrawalToCoverShortfall

\* a shortfall left by one year, part of it still uncovered a year later
C5_Witness ==
    /\ Emitted
    /\ Len(run.projection) >= 2
    /\ PreviousRecord.yearEndShortfallAmount > Tolerance
    /\ LastRecord.yearEndShortfallAmount > 0
    /\ run.it.cashFromMaturingThisYear > 0

RECURSIVE CountIf(_)
\* how many verdicts are true
CountIf(keep) == IF keep = <<>> THEN 0 ELSE (IF Head(keep) THEN 1 ELSE 0) + CountIf(Tail(keep))

\* the election of a maturing tranche as the engine can honour it: 'hysa' needs a
\* HYSA allocation and 'newCD' a usable reinvestment term, or the value is held as cash
Honoured(cd) ==
    IF cd.reinvestmentOption = "hysa" /\ run.hysaDefined THEN "hysa"
    ELSE IF cd.reinvestmentOption = "newCD"
            /\ ~ReinvestTermInvalid(cd.reinvestmentTerm, input.interestRates) THEN "newCD"
    ELSE "cash"

\* the maturity values of the year's maturing tranches whose election is `option`
ElectedValue(option) ==
    SeqSum([i \in 1..Len(run.it.maturing) |->
                IF Honoured(run.it.maturing[i]) = option
                    THEN run.it.maturing[i].valueAtMaturity ELSE 0])

\* C6: in a year entered with a carried shortfall above the tolerance the whole
\* maturing value goes to cash: nothing is reinvested, no tranche is created and
\* nothing is added to the HYSA; with a carried shortfall of at most the tolerance
\* each maturing tranche's own election is followed
C6_ShortfallBlocksReinvestment ==
    Emitted =>
        IF run.it.carriedShortfall > Tolerance
        THEN /\ LastRecord.reinvestedValue = 0
             /\ run.it.newlyReinvestedTranches = <<>>
             /\ run.it.hysaValueReinvestedThisYear = 0
             /\ run.it.hysaBeforeCover = run.it.hysaBalanceIn
             /\ run.it.cashFromMaturingThisYear = LastRecord.maturingValue
             /\ LastRecord.maturingValue = ElectedValue("cash") + ElectedValue("hysa")
                                           + ElectedValue("newCD")
        ELSE /\ run.it.hysaValueReinvestedThisYear = ElectedValue("hysa")
             /\ run.it.cashFromMaturingThisYear = ElectedValue("cash")
             /\ Len(run.it.newlyReinvestedTranches) =
                    CountIf([i \in 1..Len(run.it.maturing) |->
                                Honoured(run.it.maturing[i]) = "newCD"])
             /\ SeqSum([i \in 1..Len(run.it.newlyReinvestedTranches) |->
                            run.it.newlyReinvestedTranches[i].amount]) = ElectedValue("newCD")

\* a year entered with a shortfall above the tolerance in which a tranche electing
\* a new CD matures and is held as cash
C6_Witness ==
    /\ Emitted
    /\ run.it.carriedShortfall > Tolerance
    /\ ElectedValue("newCD") > 0
    /\ ElectedValue("cash") = 0
    /\ run.it.cashFromMaturingThisYear = LastRecord.maturingValue

-----------------------------------------------------------------------------
(* Repeated calls in one process *)

\* C7: two calls with the same inputs and the same scenario return the same year
\* records, totals and overall shortfall flag, whatever the reinvestment counter
\* holds as each of them starts
C7_SameInputsSameResult ==
    \A i, j \in 1..Len(runs) :
        runs[i].rateScenario = runs[j].rateScenario =>
            /\ runs[i].outcome = runs[j].outcome
            /\ runs[i].result.projectionYears = runs[j].result.projectionYears
            /\ runs[i].result.totals = runs[j].result.totals
            /\ runs[i].result.hasShortfall = runs[j].result.hasShortfall

\* two completed calls under one scenario, the second started with the counter
\* the first one advanced, both reinvesting and earning interest
C7_Witness ==
    /\ Len(runs) = 2
    /\ runs[1].rateScenario = runs[2].rateScenario
    /\ runs[1].outcome = "ok"
    /\ runs[1].newIds # <<>>
    /\ runs[2].newIds # <<>>
    /\ reinvestmentCounter > Len(runs[2].newIds)
    /\ runs[2].result.totals.totalInterestEarned > 0

\* C8: repeated calls with the same inputs give the same ids to the tranches they
\* create by reinvestment: the naming sequence is per-call state
C8_SameInputsSameIds ==
    \A i, j \in 1..Len(runs) :
        (runs[i].rateScenario = runs[j].rateScenario
            /\ runs[i].outcome = "ok" /\ runs[j].outcome = "ok") =>
            runs[i].newIds = runs[j].newIds

-----------------------------------------------------------------------------
(* The baseline against the falling scenario *)

\* three allocations, the CDs maturing in different years, and withdrawals close
\* to what the HYSA holds: inputs on which the scenarios part ways
CompareTranches ==
    LET cd(t, o) == [amount |-> 10 * MoneyScale, term |-> t, reinvestmentOption |-> o[1],
                     reinvestmentTerm |-> o[2]]
        hysa == [amount |-> 8 * MoneyScale, term |-> "HYSA", reinvestmentOption |-> "",
                 reinvestmentTerm |-> ""]
        elections == {<<"cash", "12m">>, <<"hysa", "12m">>, <<"newCD", "12m">>,
                      <<"newCD", "6m">>}
    IN  {<<cd("12m", o)>> : o \in elections}
        \cup {<<hysa, cd("12m", o)>> : o \in elections}
        \cup {<<hysa, cd("12m", o1), cd("24m", o2)>> : o1, o2 \in elections}

CompareWithdrawals ==
    {<<>>} \cup {<<[date |-> DateStr(y, 9), amount |-> a]>> :
                    y \in {2025, 2026}, a \in {4 * MoneyScale, 8200}}

CompareInputs ==
    {[investmentStartDate |-> [given |-> TRUE, text |-> d],
      lumpSum |-> Num(SeqSum([i \in 1..Len(ts) |-> ts[i].amount])),
      taxRate |-> Num(25),
      tranches |-> WithIds(ts, "tranche-"), tranchesGiven |-> TRUE,
      withdrawals |-> WithIds(ws, "withdrawal-"), withdrawalsGiven |-> TRUE,
      interestRates |-> InterestRates, interestRatesGiven |-> TRUE] :
        d \in {DateStr(2025, 1), DateStr(2025, 7)},
        ts \in CompareTranches,
        ws \in CompareWithdrawals}

InitCompare ==
    /\ input \in CompareInputs
    /\ reinvestmentCounter = 0
    /\ pc = "idle"
    /\ run = IdleRun
    /\ runs = <<>>
    /\ app = NoApp
    /\ rateCall = NoRateCall

SpecCompare == InitCompare /\ [][Next]_vars

\* the pairs of completed calls, the first under the baseline and the second under
\* 'ratesFallSignificantly'
BaselineAndFall ==
    {p \in (1..Len(runs)) \X (1..Len(runs)) :
        /\ runs[p[1]].rateScenario = "ratesStayHigh"
        /\ runs[p[2]].rateScenario = "ratesFallSignificantly"
        /\ runs[p[1]].outcome = "ok"
        /\ runs[p[2]].outcome = "ok"}

-----------------------------------------------------------------------------
(* The rate resolver *)

\* C10: for the baseline scenario, for no scenario and for a scenario key that
\* names no configured scenario, the resolver returns the base table's APY of the
\* term, unclamped, for every term of the table and every year; a call without a
\* scenario runs under the baseline
C10_BaselineReturnsBase ==
    /\ ScenarioParameter(Undefined) = "ratesStayHigh"
    /\ (/\ rateCall.applied
        /\ rateCall.termKey \in DOMAIN rateCall.baseRates
        /\ rateCall.baseRates[rateCall.termKey].apy.isNum
        /\ rateCall.scenarioKey \in
                {"ratesStayHigh", Undefined} \cup (ScenarioKeys \ DOMAIN RATE_SCENARIOS))
        => rateCall.result = Returned(rateCall.baseRates[rateCall.termKey].apy.v)

\* the configured scenarios that are not the baseline
FallingScenarios == DOMAIN RATE_SCENARIOS \ {"ratesStayHigh"}

\* the resolver was applied under a configured scenario that is not the baseline
AppliedUnderScenario == rateCall.applied /\ rateCall.scenarioKey \in FallingScenarios

\* the term of the call has a numeric APY in the base table of the call
TermHasBaseApy ==
    /\ rateCall.termKey \in DOMAIN rateCall.baseRates
    /\ rateCall.baseRates[rateCall.termKey].apy.isNum

-----------------------------------------------------------------------------
(* The scenario arithmetic *)

\* the values of the specification's rule for the call in rateCall
CallTarget == rateCall.baseApy + ScenarioAdjustment(rateCall.scenarioConfig, rateCall.termKey)

CallFloor == rateCall.scenarioConfig.floor

CallStartElapsed == rateCall.scenarioConfig.targetYearStartEffect - 1

CallFullElapsed == rateCall.scenarioConfig.targetYearFullEffect - 1

CallSpan == CallFullElapsed - CallStartElapsed

\* the resolver's value for the same config, term and base APY in another year
RateInYear(yearsElapsed) ==
    ScenarioRate(rateCall.scenarioConfig, rateCall.termKey, rateCall.baseApy, yearsElapsed)

\* C12: for a scenario with a positive span and a fixed term, the rates of the years
\* from the start year on move monotonically from the (floored) base APY toward the
\* (floored) target APY, non-increasing when the adjustment is negative, never past
\* the target, and are constant from yearsElapsed = fullEffectYear - 1 on
C12_MonotoneTowardTarget ==
    (rateCall.applied /\ CallSpan > 0 /\ rateCall.yearsElapsed >= 0) =>
        /\ CallTarget <= rateCall.baseApy => RateInYear(rateCall.yearsElapsed + 1) <= rateCall.result
        /\ CallTarget >= rateCall.baseApy => RateInYear(rateCall.yearsElapsed + 1) >= rateCall.result
        /\ rateCall.result >= Min(Max(CallFloor, rateCall.baseApy), Max(CallFloor, CallTarget))
        /\ rateCall.result <= Max(Max(CallFloor, rateCall.baseApy), Max(CallFloor, CallTarget))
        /\ rateCall.yearsElapsed >= CallFullElapsed =>
                /\ rateCall.result = Max(CallFloor, CallTarget)
                /\ RateInYear(rateCall.yearsElapsed + 1) = rateCall.result

\* a year inside a window of three years: the rate is strictly between the base and
\* the target, and the next year's is strictly nearer the target
C12_Witness ==
    /\ rateCall.applied
    /\ CallSpan > 1
    /\ rateCall.yearsElapsed >= 0
    /\ rateCall.yearsElapsed < CallFullElapsed - 1
    /\ CallTarget < rateCall.result
    /\ rateCall.result < rateCall.baseApy
    /\ RateInYear(rateCall.yearsElapsed + 1) < rateCall.result
    /\ RateInYear(rateCall.yearsElapsed + 1) > CallTarget

-----------------------------------------------------------------------------
(* The year range *)

\* the calls of the history that returned a projection
ReturnedRuns == {i \in 1..Len(runs) : runs[i].outcome = "ok"}

\* the year records a completed call returned
YearsOf(i) == runs[i].result.projectionYears

\* the records are one per calendar year, consecutive and ascending
Consecutive(records) ==
    \A k \in 1..Len(records) : records[k].year = records[1].year + (k - 1)

\* C14 as stated: the first record of every returned projection is the record of the
\* portfolio's start year, whatever the dates of the withdrawals; the records are one
\* per calendar year, consecutive and ascending up to the planner's maximum year, and
\* there is at least one
C14_RecordsFromStartYear ==
    \A i \in ReturnedRuns :
        /\ Len(YearsOf(i)) >= 1
        /\ YearsOf(i)[1].year = getFullYear(parseDateString(input.investmentStartDate.text))
        /\ Consecutive(YearsOf(i))
        /\ YearsOf(i)[Len(YearsOf(i))].year = maxYear(input)

\* the part of C14 the program keeps: at least one record, one per calendar year,
\* consecutive and ascending, from the earliest of the start year and the years of
\* the validly dated withdrawals up to the planner's maximum year
C14_RecordsConsecutive ==
    \A i \in ReturnedRuns :
        /\ Len(YearsOf(i)) >= 1
        /\ YearsOf(i)[1].year <= getFullYear(parseDateString(input.investmentStartDate.text))
        /\ Consecutive(YearsOf(i))
        /\ YearsOf(i)[Len(YearsOf(i))].year = maxYear(input)

-----------------------------------------------------------------------------
(* Without a HYSA allocation; tranches created by reinvestment *)

\* no allocation row of the input is a HYSA row
NoHysaRow == \A i \in 1..Len(input.tranches) : input.tranches[i].term # "HYSA"

\* the maturity values of the year's maturing tranches that elect the HYSA
HysaElectingValue ==
    SeqSum([i \in 1..Len(run.it.maturing) |->
                IF run.it.maturing[i].reinvestmentOption = "hysa"
                    THEN run.it.maturing[i].valueAtMaturity ELSE 0])

\* C19: when no allocation row is a HYSA row, every year record has an end-of-year
\* HYSA balance, a HYSA interest and a HYSA cover of 0, and the maturity value of
\* every tranche electing 'hysa' is added to the year's cash, not to the HYSA balance
C19_NoHysaRowNoHysaBalance ==
    (Emitted /\ NoHysaRow) =>
        /\ LastRecord.endOfYearHysaBalance = 0
        /\ LastRecord.interestFromHYSA = 0
        /\ LastRecord.hysaWithdrawalToCoverShortfall = 0
        /\ run.currentHysaBalance = 0
        /\ run.it.hysaValueReinvestedThisYear = 0
        /\ run.it.cashFromMaturingThisYear >= HysaElectingValue
        /\ (\A k \in 1..Len(run.it.maturing) : run.it.maturing[k].reinvestmentOption = "hysa")
                => run.it.cashFromMaturingThisYear = LastRecord.maturingValue

\* without a HYSA row, a tranche electing 'hysa' matures in a year entered without
\* a shortfall, and its value is the year's cash from maturities
C19_Witness ==
    /\ Emitted
    /\ NoHysaRow
    /\ run.it.carriedShortfall = 0
    /\ HysaElectingValue > 0
    /\ run.it.cashFromMaturingThisYear = HysaElectingValue
    /\ LastRecord.endOfYearHysaBalance = 0

\* the ids given by this call to the tranches it created
CreatedIds == {run.newIds[k] : k \in 1..Len(run.newIds)}

\* the maturing tranches of the year that were created by reinvestment
CreatedMaturing == {k \in 1..Len(run.it.maturing) : run.it.maturing[k].id \in CreatedIds}

\* how many CD rows of the input elect a new CD
NewCdElections ==
    CountIf([i \in 1..Len(input.tranches) |->
                input.tranches[i].term # "HYSA" /\ input.tranches[i].reinvestmentOption = "newCD"])

-----------------------------------------------------------------------------
(* The last simulated year *)

\* the start date of the input, in months
InputStart == input.investmentStartDate.text.y * 12 + (input.investmentStartDate.text.mo - 1)

\* the CD rows of the input and their durations in the rate table
CdRows == {i \in 1..Len(input.tranches) : input.tranches[i].term # "HYSA"}

RowDuration(i) == input.interestRates[input.tranches[i].term].duration.v

\* the years of the validly dated withdrawals and of the initial maturities
EventYears ==
    {input.withdrawals[i].date.y : i \in {j \in 1..Len(input.withdrawals) :
                                            input.withdrawals[j].date.ok}}
    \cup {(InputStart + RowDuration(i)) \div 12 : i \in CdRows}

\* start year + ceil(longest initial CD duration / 12) + 5
BufferYear ==
    (InputStart \div 12) + 5
    + SetMax({0} \cup {(RowDuration(i) + 11) \div 12 : i \in CdRows})

\* C15: the last simulated year is the larger of the latest year among the validly
\* dated withdrawals and the initial maturities and of start year + ceil(longest
\* initial CD duration / 12) + 5; it is fixed before the loop and stays so, and the
\* number of records is the same under every scenario; a reinvested tranche that
\* matures later does not extend the range
C15_LastYearFromInitialData ==
    /\ pc = "loop" => run.maxYear = SetMax(EventYears \cup {BufferYear})
    /\ \A i \in ReturnedRuns :
            /\ YearsOf(i)[Len(YearsOf(i))].year = SetMax(EventYears \cup {BufferYear})
            /\ \A j \in ReturnedRuns : Len(YearsOf(j)) = Len(YearsOf(i))

\* the loop is over, its last record is the record of the buffer year, and a
\* tranche created by reinvestment matures after it
C15_Witness ==
    /\ pc = "loop"
    /\ run.year > run.maxYear
    /\ LastRecord.year = BufferYear
    /\ \E k \in 1..Len(run.activeCdTranches) :
            /\ run.activeCdTranches[k].id \in CreatedIds
            /\ getFullYear(run.activeCdTranches[k].maturityDate) > LastRecord.year

-----------------------------------------------------------------------------
(* Fatal errors *)

\* a required number is missing or not numeric: null or undefined, the empty string,
\* or a string that is no number
MissingOrNotNumeric(x) ==
    IF IsString(x) THEN x.text = "" \/ ~x.number.isNum ELSE ~x.isNum

\* the start date is missing or unparseable, the total amount or the tax rate is
\* missing or not numeric, or a list or the rate table is missing
RequiredInputInvalid ==
    \/ ~input.investmentStartDate.given
    \/ ~input.investmentStartDate.text.ok
    \/ MissingOrNotNumeric(input.lumpSum)
    \/ MissingOrNotNumeric(input.taxRate)
    \/ ~input.tranchesGiven
    \/ ~input.withdrawalsGiven
    \/ ~input.interestRatesGiven

\* a call ended with the error result and did nothing else
EndedInValidationError(i) ==
    /\ runs[i].outcome = "error"
    /\ runs[i].result.projectionYears = <<>>
    /\ runs[i].result.error # ""
    /\ runs[i].result.totals = NoTotals
    /\ runs[i].newIds = <<>>

\* C16 as stated: when the start date is missing or unparseable, the total amount or
\* the tax rate is missing or not numeric, or the allocation list, the withdrawal
\* list or the rate table is missing, every call returns an empty year sequence with
\* a non-empty error message and computes nothing: the loop is never entered, no
\* totals, no tranche created
C16_InvalidInputIsError ==
    RequiredInputInvalid =>
        /\ pc = "idle"
        /\ reinvestmentCounter = 0
        /\ \A i \in 1..Len(runs) : EndedInValidationError(i)

\* the part of C16 the program keeps: the same, for a total amount or tax rate that
\* is null, undefined or converts to NaN under Number()
C16_NaNInputIsError ==
    (\/ ~input.investmentStartDate.given
     \/ ~input.investmentStartDate.text.ok
     \/ ~ToNumber(input.lumpSum).isNum
     \/ ~ToNumber(input.taxRate).isNum
     \/ ~input.tranchesGiven
     \/ ~input.withdrawalsGiven
     \/ ~input.interestRatesGiven) =>
        /\ pc = "idle"
        /\ reinvestmentCounter = 0
        /\ \A i \in 1..Len(runs) : EndedInValidationError(i)

\* the required inputs pass the validation guard
RequiredInputsPass == ValidationError(input) = ""

\* a row whose term the rate table lacks, or a CD row whose term's duration is not a
\* positive number
RowIsFatal(row) ==
    \/ row.term \notin DOMAIN input.interestRates
    \/ /\ row.term # "HYSA"
       /\ \/ ~input.interestRates[row.term].duration.isNum
          \/ input.interestRates[row.term].duration.v <= 0

\* the null of projectionResults
NoProjectionResults == [projectionYears |-> <<>>, isNull |-> TRUE]

\* what runCalculation leaves in projectionResults after a call (App.js lines 112-133)
ProjectionResultsAfter(completed) ==
    IF completed.outcome = "threw" THEN NoProjectionResults
    ELSE IF completed.result.error # "" THEN NoProjectionResults
    ELSE completed.result

\* C17: when a row's term is absent from the rate table, or a CD row's term has a
\* duration that is not a positive number, every call ends in the fatal outcome (it
\* throws) even when the other rows are valid: the loop is never entered, no year
\* record, no totals and no tranche are produced, and the UI holds no projection
\* results
C17_BadRowIsFatal ==
    (RequiredInputsPass /\ \E k \in 1..Len(input.tranches) : RowIsFatal(input.tranches[k])) =>
        /\ pc = "idle"
        /\ reinvestmentCounter = 0
        /\ \A i \in 1..Len(runs) :
                /\ runs[i].outcome = "threw"
                /\ runs[i].newIds = <<>>
                /\ ProjectionResultsAfter(runs[i]) = NoProjectionResults

\* a call that threw on an input with a usable row and a row of duration 0
C17_Witness ==
    /\ RequiredInputsPass
    /\ \E k \in 1..Len(input.tranches) : ~RowIsFatal(input.tranches[k])
    /\ \E k \in 1..Len(input.tranches) : input.tranches[k].term = "zero"
    /\ Len(runs) > 0
    /\ runs[1].outcome = "threw"
    /\ ProjectionResultsAfter(runs[1]) = NoProjectionResults

-----------------------------------------------------------------------------
(* An election of a new CD that cannot be served *)

\* the tranche elects a new CD of a term that the rate table lacks, or whose APY is
\* not a number, or whose duration is not a positive number
ElectsUnusableTerm(cd) ==
    /\ cd.reinvestmentOption = "newCD"
    /\ \/ cd.reinvestmentTerm \notin DOMAIN input.interestRates
       \/ ~input.interestRates[cd.reinvestmentTerm].apy.isNum
       \/ ~input.interestRates[cd.reinvestmentTerm].duration.isNum
       \/ input.interestRates[cd.reinvestmentTerm].duration.v <= 0

UnusableMaturing == {k \in 1..Len(run.it.maturing) : ElectsUnusableTerm(run.it.maturing[k])}

\* C18: a maturing tranche that elects a new CD of an unusable term does not stop
\* the projection: its whole maturity value is added to the year's cash, no tranche
\* is created for it, and every call on rows the table can serve returns the records
\* of all the years up to the last
C18_UnusableTermFallsBackToCash ==
    /\ Emitted =>
        /\ run.it.cashFromMaturingThisYear >=
                SeqSum([k \in 1..Len(run.it.maturing) |->
                            IF k \in UnusableMaturing
                                THEN run.it.maturing[k].valueAtMaturity ELSE 0])
        /\ Len(run.it.newlyReinvestedTranches)
                <= Len(run.it.maturing) - Cardinality(UnusableMaturing)
        /\ \A k \in 1..Len(run.it.newlyReinvestedTranches) :
                /\ run.it.newlyReinvestedTranches[k].term \in DOMAIN input.interestRates
                /\ run.it.newlyReinvestedTranches[k].termMonths > 0
        /\ UnusableMaturing = 1..Len(run.it.maturing) =>
                /\ run.it.cashFromMaturingThisYear = LastRecord.maturingValue
                /\ run.it.newlyReinvestedTranches = <<>>
    /\ (RequiredInputsPass
        /\ \A k \in 1..Len(input.tranches) :
                /\ ~RowIsFatal(input.tranches[k])
                /\ input.interestRates[input.tranches[k].term].apy.isNum) =>
            \A i \in 1..Len(runs) :
                /\ runs[i].outcome = "ok"
                /\ YearsOf(i)[Len(YearsOf(i))].year = maxYear(input)

\* a tranche electing a new CD of a term whose APY is not a number matures in a year
\* entered without a shortfall: its value is the year's cash from maturities, and
\* years remain to simulate
C18_Witness ==
    /\ Emitted
    /\ run.it.carriedShortfall = 0
    /\ UnusableMaturing # {}
    /\ UnusableMaturing = 1..Len(run.it.maturing)
    /\ \E k \in UnusableMaturing : run.it.maturing[k].reinvestmentTerm = "noApy"
    /\ run.it.cashFromMaturingThisYear = LastRecord.maturingValue
    /\ LastRecord.maturingValue > 0
    /\ run.it.newlyReinvestedTranches = <<>>
    /\ run.year <= run.maxYear

-----------------------------------------------------------------------------
(* Every tranche matures in its year *)

\* the active tranches whose maturity year the loop has already passed
Overdue ==
    {k \in 1..Len(run.activeCdTranches) :
        getFullYear(run.activeCdTranches[k].maturityDate) < run.year}

\* C21 as stated: every tranche, initial or created by reinvestment, whose maturity
\* year lies within the simulated years leaves the active set in its maturity year,
\* its value counted in that year's maturingValue: between two iterations no active
\* tranche has a maturity year the loop has passed, and the maturing value of a year
\* is the value of the tranches of that maturity year
C21_MaturesInItsYear ==
    pc = "loop" =>
        /\ Overdue = {}
        /\ Emitted =>
            LastRecord.maturingValue =
                SeqSum([k \in 1..Len(run.it.maturing) |-> run.it.maturing[k].valueAtMaturity])

\* the part of C21 the program keeps: an initial tranche leaves the active set in
\* its maturity year, and a tranche created by reinvestment that matures in a later
\* year than the one that created it leaves it in its maturity year
C21_LaterYearsMature ==
    pc = "loop" =>
        /\ \A k \in Overdue :
                /\ run.activeCdTranches[k].id \in CreatedIds
                /\ getFullYear(run.activeCdTranches[k].maturityDate)
                    = getFullYear(run.activeCdTranches[k].maturityDate
                                  - run.activeCdTranches[k].termMonths)
        /\ Emitted =>
            LastRecord.maturingValue =
                SeqSum([k \in 1..Len(run.it.maturing) |-> run.it.maturing[k].valueAtMaturity])

-----------------------------------------------------------------------------
(* Locked-in yields and scenario yields *)

\* the allocation row of the input an initial tranche comes from
RowOf(cd) == CHOOSE i \in 1..Len(input.tranches) : input.tranches[i].id = cd.id

\* is the tranche an initial one: its id is a row's, and this call did not create it
IsInitial(cd) ==
    /\ cd.id \notin CreatedIds
    /\ \E i \in 1..Len(input.tranches) : input.tranches[i].id = cd.id

\* the tranche holds what the base rate table gives its row: the maturity date, the
\* value at maturity and the interest
LockedAtBaseRate(cd) ==
    LET row == input.tranches[RowOf(cd)]
        entry == input.interestRates[row.term]
    IN  /\ cd.amount = row.amount
        /\ cd.maturityDate = InputStart + entry.duration.v
        /\ cd.valueAtMaturity = Compound(row.amount, entry.apy.v, entry.duration.v)
        /\ cd.interestEarned = cd.valueAtMaturity - row.amount

\* the maturing tranches of the year whose election of a new CD was followed, in
\* the order of the loop
NewCdSources ==
    IF run.it.carriedShortfall > Tolerance THEN <<>>
    ELSE FilterSeq(run.it.maturing,
                   [k \in 1..Len(run.it.maturing) |-> Honoured(run.it.maturing[k]) = "newCD"])

\* the resolver's APY for a term in the year of the iteration, under the call's scenario
EffectiveApy(termKey) ==
    getRateForYear(termKey, run.it.year, run.rateScenario, input.interestRates,
                   run.startYear).value

\* the created tranche is the source's value at maturity, placed on the source's
\* maturity date for the duration of the elected term at the scenario's APY of the
\* year of that maturity
PlacedAtScenarioRate(new, source) ==
    LET entry == input.interestRates[source.reinvestmentTerm]
    IN  /\ getFullYear(source.maturityDate) = run.it.year
        /\ new.amount = source.valueAtMaturity
        /\ new.term = source.reinvestmentTerm
        /\ new.termMonths = entry.duration.v
        /\ new.maturityDate = source.maturityDate + entry.duration.v
        /\ new.valueAtMaturity =
                Compound(source.valueAtMaturity, EffectiveApy(source.reinvestmentTerm),
                         entry.duration.v)
        /\ new.interestEarned = new.valueAtMaturity - new.amount

\* C22: an initial CD's maturity date, interest and value at maturity come from the
\* base rate table and the input alone, so they are the same under every scenario;
\* a tranche created by reinvestment has the source's full maturity value as its
\* principal, the source's maturity date as its start, and its value at maturity is
\* principal * (1 + effectiveApy(reinvestTerm, year of the source's maturity) / 100)
\* ^ (durationMonths / 12)
C22_OnlyReinvestmentUsesScenario ==
    pc = "loop" =>
        /\ \A k \in 1..Len(run.activeCdTranches) :
                IsInitial(run.activeCdTranches[k]) => LockedAtBaseRate(run.activeCdTranches[k])
        /\ Emitted =>
            /\ \A k \in 1..Len(run.it.maturing) :
                    IsInitial(run.it.maturing[k]) => LockedAtBaseRate(run.it.maturing[k])
            /\ Len(run.it.newlyReinvestedTranches) = Len(NewCdSources)
            /\ \A k \in 1..Len(run.it.newlyReinvestedTranches) :
                    PlacedAtScenarioRate(run.it.newlyReinvestedTranches[k], NewCdSources[k])

\* under the falling scenario an initial tranche matures and is placed in a new CD
\* worth less at maturity than the base table would make it, while another initial
\* tranche is still running at its base yield
C22_Witness ==
    /\ Emitted
    /\ run.rateScenario = "ratesFallSignificantly"
    /\ Len(run.it.newlyReinvestedTranches) = 1
    /\ IsInitial(NewCdSources[1])
    /\ run.it.newlyReinvestedTranches[1].valueAtMaturity <
            Compound(run.it.newlyReinvestedTranches[1].amount,
                     input.interestRates[run.it.newlyReinvestedTranches[1].term].apy.v,
                     run.it.newlyReinvestedTranches[1].termMonths)
    /\ \E k \in 1..Len(run.activeCdTranches) :
            /\ IsInitial(run.activeCdTranches[k])
            /\ run.activeCdTranches[k].interestEarned > 0

-----------------------------------------------------------------------------
(* The HYSA: interest and balance *)

\* the sum of the amounts of the input's HYSA rows
InitialLiquidAllocation ==
    SeqSum([i \in 1..Len(input.tranches) |->
                IF input.tranches[i].term = "HYSA" THEN input.tranches[i].amount ELSE 0])

\* the HYSA balance the year of the last record started with: the end-of-year
\* balance of the record before it, the initial allocation for the first record
StartOfYearHysa ==
    IF Len(run.projection) >= 2 THEN PreviousRecord.endOfYearHysaBalance
    ELSE InitialLiquidAllocation

\* the resolver's HYSA rate for the year of the last record
HysaApyOfYear ==
    getRateForYear("HYSA", LastRecord.year, run.rateScenario, input.interestRates,
                   input.investmentStartDate.text.y).value

\* C23: the HYSA interest of year Y is the balance at the start of Y times
\* effectiveApy('HYSA', Y) / 100 times f, with f = (12 - zero-based start month) / 12
\* in the portfolio's start year and 1 in every other year; it is 0 without a HYSA
\* allocation or with a start-of-year balance that is not positive; value moved to
\* the HYSA in Y is no part of the balance that earns in Y
C23_HysaInterestOnStartBalance ==
    Emitted =>
        LastRecord.interestFromHYSA =
            IF NoHysaRow \/ StartOfYearHysa <= 0 THEN 0
            ELSE IF LastRecord.year = input.investmentStartDate.text.y
                THEN (StartOfYearHysa * HysaApyOfYear
                        * (12 - (input.investmentStartDate.text.mo - 1))) \div (RateOne * 12)
                ELSE (StartOfYearHysa * HysaApyOfYear) \div RateOne

\* a portfolio started in July: the first record holds half a year's interest, and
\* in the second a maturing CD moves to the HYSA while the interest is a full
\* year's on the balance the year started with
C23_Witness ==
    /\ Emitted
    /\ Len(run.projection) = 2
    /\ input.investmentStartDate.text.mo = 7
    /\ PreviousRecord.year = input.investmentStartDate.text.y
    /\ PreviousRecord.interestFromHYSA = (InitialLiquidAllocation * HysaApyOfYear) \div (2 * RateOne)
    /\ PreviousRecord.interestFromHYSA > 0
    /\ run.it.hysaValueReinvestedThisYear > 0
    /\ LastRecord.endOfYearHysaBalance > StartOfYearHysa
    /\ LastRecord.interestFromHYSA = (StartOfYearHysa * HysaApyOfYear) \div RateOne
    /\ LastRecord.interestFromHYSA > 0

\* C24 as stated: the end-of-year HYSA balance is the balance of the year before
\* (the initial allocation for the first year) plus the year's HYSA interest plus
\* the value moved to the HYSA in the year less the amount drawn to cover a shortfall
C24_BalanceAccruesInterest ==
    Emitted =>
        LastRecord.endOfYearHysaBalance =
            StartOfYearHysa + LastRecord.interestFromHYSA + run.it.hysaValueReinvestedThisYear
            - LastRecord.hysaWithdrawalToCoverShortfall

\* C24, amended: the HYSA balance changes from one year end to the next only through
\* the value moved to it from maturing CDs and the amount drawn to cover a shortfall;
\* the year's HYSA interest is not added to the balance, it is paid into the year's
\* available cash
C24_BalanceMovesByInflowAndCover ==
    Emitted =>
        /\ LastRecord.endOfYearHysaBalance =
                StartOfYearHysa + run.it.hysaValueReinvestedThisYear
                - LastRecord.hysaWithdrawalToCoverShortfall
        /\ run.currentHysaBalance = LastRecord.endOfYearHysaBalance
        /\ run.it.cashAvailableThisYear =
                run.it.startingCashForYear + run.it.cashFromMaturingThisYear
                + LastRecord.interestFromHYSA

\* a year in which the HYSA earns interest, receives a maturing CD and covers a
\* shortfall, and ends with a balance
C24_Witness ==
    /\ Emitted
    /\ LastRecord.interestFromHYSA > 0
    /\ run.it.hysaValueReinvestedThisYear > 0
    /\ LastRecord.hysaWithdrawalToCoverShortfall > 0
    /\ LastRecord.endOfYearHysaBalance > 0
    /\ LastRecord.endOfYearHysaBalance # StartOfYearHysa

-----------------------------------------------------------------------------
(* Interest, taxes and totals *)

\* C25: in every year record the yearly interest is the interest from CDs plus the
\* interest from the HYSA; the interest from CDs is the sum of the locked-in interest
\* of the tranches maturing in the year, also when a carried shortfall forces their
\* value to cash; the taxes due are the yearly interest times taxRate / 100, and they
\* are deducted from the year's cash flow whether or not the cash suffices
C25_InterestAndTaxes ==
    Emitted =>
        /\ LastRecord.yearlyInterest = LastRecord.interestFromCDs + LastRecord.interestFromHYSA
        /\ LastRecord.interestFromCDs =
                SeqSum([k \in 1..Len(run.it.maturing) |-> run.it.maturing[k].interestEarned])
        /\ LastRecord.taxesDue = (LastRecord.yearlyInterest * input.taxRate.v) \div 100
        /\ run.it.netBefore =
                run.it.cashAvailableThisYear - LastRecord.withdrawalAmount - LastRecord.taxesDue

\* a year entered with a shortfall: the maturing CD that elected a new CD is held as
\* cash, its interest is the year's interest from CDs and is taxed, and the cash
\* does not cover what the year owes
C25_Witness ==
    /\ Emitted
    /\ run.it.carriedShortfall > Tolerance
    /\ \E k \in 1..Len(run.it.maturing) : run.it.maturing[k].reinvestmentOption = "newCD"
    /\ LastRecord.interestFromCDs > 0
    /\ LastRecord.taxesDue > 0
    /\ run.it.netBefore < 0
    /\ LastRecord.yearEndShortfallAmount > 0

\* the sum of a field over the records of a returned call
TotalOverYears(i, field) ==
    SeqSum([k \in 1..Len(YearsOf(i)) |-> YearsOf(i)[k][field]])

\* C26: in a success result the total interest earned is the sum of the records'
\* yearly interest, the total taxes paid the sum of their taxes due, the total
\* interest after tax their difference, the final portfolio value the last record's
\* total portfolio value; a record's shortfall flag is true exactly when its year-end
\* shortfall amount exceeds 0.01, and the overall flag is the OR of the records' flags
C26_TotalsAreSums ==
    \A i \in ReturnedRuns :
        /\ runs[i].result.totals.totalInterestEarned = TotalOverYears(i, "yearlyInterest")
        /\ runs[i].result.totals.totalTaxesPaid = TotalOverYears(i, "taxesDue")
        /\ runs[i].result.totals.totalInterestAfterTax =
                TotalOverYears(i, "yearlyInterest") - TotalOverYears(i, "taxesDue")
        /\ runs[i].result.totals.finalPortfolioValue =
                YearsOf(i)[Len(YearsOf(i))].totalPortfolioValue
        /\ \A k \in 1..Len(YearsOf(i)) :
                YearsOf(i)[k].hasShortfall <=> YearsOf(i)[k].yearEndShortfallAmount > Tolerance
        /\ runs[i].result.hasShortfall <=> \E k \in 1..Len(YearsOf(i)) : YearsOf(i)[k].hasShortfall

\* a returned call with interest in two or more years, taxes, a first year without
\* a shortfall and a later year with one
C26_Witness ==
    \E i \in ReturnedRuns :
        /\ runs[i].result.hasShortfall
        /\ ~YearsOf(i)[1].hasShortfall
        /\ Cardinality({k \in 1..Len(YearsOf(i)) : YearsOf(i)[k].yearlyInterest > 0}) >= 2
        /\ runs[i].result.totals.totalTaxesPaid > 0
        /\ runs[i].result.totals.totalInterestEarned
                > YearsOf(i)[Len(YearsOf(i))].yearlyInterest
        /\ runs[i].result.totals.finalPortfolioValue > 0

-----------------------------------------------------------------------------
(* A created tranche that matures after the last simulated year *)

\* the active tranches created by this call that mature after the last simulated year
BeyondRange ==
    {k \in 1..Len(run.activeCdTranches) :
        /\ run.activeCdTranches[k].id \in CreatedIds
        /\ getFullYear(run.activeCdTranches[k].maturityDate) > run.maxYear}

\* the principal of the active tranches of the set
PrincipalOf(tranches) ==
    SeqSum([k \in 1..Len(run.activeCdTranches) |->
                IF k \in tranches THEN run.activeCdTranches[k].amount ELSE 0])

\* the active tranches that mature within the simulated years, after the last record's
StillToMature ==
    {k \in 1..Len(run.activeCdTranches) :
        /\ getFullYear(run.activeCdTranches[k].maturityDate) > LastRecord.year
        /\ getFullYear(run.activeCdTranches[k].maturityDate) <= run.maxYear}

\* C27 as stated: a tranche created by reinvestment that matures after the last
\* simulated year is never matured within the run, and its principal is not counted
\* in ongoingCDInvestments or totalPortfolioValue of the records that follow
C27_BeyondRangeDropped ==
    Emitted =>
        /\ \A k \in 1..Len(run.it.maturing) :
                getFullYear(run.it.maturing[k].maturityDate) <= run.maxYear
        /\ LastRecord.ongoingCDInvestments = PrincipalOf(StillToMature)
        /\ LastRecord.totalPortfolioValue =
                PrincipalOf(StillToMature) + LastRecord.endOfYearHysaBalance
                + LastRecord.endOfYearCash

\* C27, amended: a tranche created by reinvestment that matures after the last
\* simulated year is never matured within the run, so its interest and its value at
\* maturity reach no record; its principal stays counted in ongoingCDInvestments and
\* totalPortfolioValue of the record of the year that created it and of every
\* record after it
C27_BeyondRangeStaysCounted ==
    Emitted =>
        /\ \A k \in 1..Len(run.it.maturing) :
                getFullYear(run.it.maturing[k].maturityDate) <= run.maxYear
        /\ LastRecord.ongoingCDInvestments =
                PrincipalOf(StillToMature) + PrincipalOf(BeyondRange)
        /\ LastRecord.totalPortfolioValue =
                PrincipalOf(StillToMature) + PrincipalOf(BeyondRange)
                + LastRecord.endOfYearHysaBalance + LastRecord.endOfYearCash
        /\ \A k \in 1..Len(run.it.newlyReinvestedTranches) :
                getFullYear(run.it.newlyReinvestedTranches[k].maturityDate) > run.maxYear
                    => /\ run.it.beyondRange
                       /\ \E j \in BeyondRange :
                            run.activeCdTranches[j] = run.it.newlyReinvestedTranches[k]

\* the last record of a run: a tranche reinvested for six years in an earlier year
\* is still active, it matures after this record, and its principal is the record's
\* ongoing CD principal
C27_Witness ==
    /\ Emitted
    /\ run.year > run.maxYear
    /\ BeyondRange # {}
    /\ run.it.newlyReinvestedTranches = <<>>
    /\ PrincipalOf(BeyondRange) > 0
    /\ LastRecord.ongoingCDInvestments = PrincipalOf(BeyondRange)
    /\ LastRecord.totalPortfolioValue >= PrincipalOf(BeyondRange)

-----------------------------------------------------------------------------
(* The declared total: calls that differ in lumpSum only *)

\* allocations and withdrawals of the calls whose declared total varies
DeclaredTranches ==
    LET cd(t, o) == [amount |-> 10 * MoneyScale, term |-> t, reinvestmentOption |-> o[1],
                     reinvestmentTerm |-> o[2]]
        hysa == [amount |-> 8 * MoneyScale, term |-> "HYSA", reinvestmentOption |-> "",
                 reinvestmentTerm |-> ""]
    IN  {<<hysa>>,
         <<hysa, cd("6m", <<"newCD", "12m">>)>>,
         <<hysa, cd("12m", <<"hysa", "12m">>)>>,
         <<cd("12m", <<"cash", "12m">>), cd("6m", <<"newCD", "12m">>)>>}

DeclaredWithdrawals ==
    {<<>>, <<[date |-> DateStr(2026, 9), amount |-> 16 * MoneyScale]>>}

\* the declared totals: the sum of the allocations of some of the inputs (18 and 20),
\* 20.005, nothing, far more than any allocation, and a total typed into the form
DeclaredTotals ==
    {Num(18 * MoneyScale), Num(20 * MoneyScale), Num(20 * MoneyScale + 5), Num(0),
     Num(50 * MoneyScale), Str("20", Num(20 * MoneyScale))}

DeclaredInputs ==
    {[investmentStartDate |-> [given |-> TRUE, text |-> d],
      lumpSum |-> total,
      taxRate |-> Num(25),
      tranches |-> WithIds(ts, "tranche-"), tranchesGiven |-> TRUE,
      withdrawals |-> WithIds(ws, "withdrawal-"), withdrawalsGiven |-> TRUE,
      interestRates |-> InterestRates, interestRatesGiven |-> TRUE] :
        d \in {DateStr(2025, 1), DateStr(2025, 7)},
        total \in DeclaredTotals,
        ts \in DeclaredTranches,
        ws \in DeclaredWithdrawals}

InitDeclared ==
    /\ input \in DeclaredInputs
    /\ reinvestmentCounter = 0
    /\ pc = "idle"
    /\ run = IdleRun
    /\ runs = <<>>
    /\ app = NoApp
    /\ rateCall = NoRateCall

\* between two calls the caller changes the declared total and nothing else
SetLumpSum(total) ==
    /\ pc = "idle"
    /\ Len(runs) < MaxRuns
    /\ total # input.lumpSum
    /\ input' = [input EXCEPT !.lumpSum = total]
    /\ UNCHANGED <<reinvestmentCounter, pc, run, runs, rateCall, app>>

NextDeclared ==
    \/ \E total \in DeclaredTotals : SetLumpSum(total)
    \/ \E scenarioArg \in ScenarioArgs : Call(scenarioArg)
    \/ YearStep
    \/ Return

SpecDeclared == InitDeclared /\ [][NextDeclared]_vars

\* the sum of the amounts of the input's allocation rows
AllocatedSum == SeqSum([i \in 1..Len(input.tranches) |-> input.tranches[i].amount])

\* the declared total of a completed call differs from the allocated sum by more
\* than 0.01
Mismatched(i) == Abs(AllocatedSum - ToNumber(runs[i].lumpSum).v) > Tolerance

\* C28: a declared total that differs from the sum of the allocation amounts by more
\* than 0.01 never aborts the projection, and the year records, the totals and the
\* overall flag do not depend on the declared total: two calls that differ in
\* lumpSum only return the same result, whose portfolio starts from the allocated sum
C28_DeclaredTotalIgnored ==
    /\ \A i \in 1..Len(runs) : runs[i].outcome = "ok"
    /\ \A i, j \in 1..Len(runs) :
            runs[i].rateScenario = runs[j].rateScenario =>
                /\ runs[i].result.projectionYears = runs[j].result.projectionYears
                /\ runs[i].result.totals = runs[j].result.totals
                /\ runs[i].result.hasShortfall = runs[j].result.hasShortfall
    /\ (pc = "loop" /\ Len(run.projection) = 0) =>
            run.currentHysaBalance + SeqSum([k \in 1..Len(run.activeCdTranches) |->
                                                run.activeCdTranches[k].amount]) = AllocatedSum

\* two calls under one scenario, the first with the allocated sum as the declared
\* total and the second with a total that is far from it, with the same records
C28_Witness ==
    /\ Len(runs) = 2
    /\ runs[1].rateScenario = runs[2].rateScenario
    /\ runs[1].lumpSum # runs[2].lumpSum
    /\ ~Mismatched(1)
    /\ Mismatched(2)
    /\ runs[2].outcome = "ok"
    /\ runs[2].result.projectionYears = runs[1].result.projectionYears
    /\ runs[2].result.totals.totalInterestEarned > 0
    /\ runs[2].result.totals.finalPortfolioValue > AllocatedSum

-----------------------------------------------------------------------------
(* Withdrawals: several of them, in one year and in different years *)

\* withdrawals without their ids: one without a usable date, one before the start
\* year, two in 2026 and one after the last year the tranches give
PlannedWithdrawalRows ==
    {[date |-> BadDateStr, amount |-> 3 * MoneyScale],
     [date |-> DateStr(2024, 9), amount |-> 4 * MoneyScale],
     [date |-> DateStr(2026, 3), amount |-> 4 * MoneyScale],
     [date |-> DateStr(2026, 9), amount |-> 5],
     [date |-> DateStr(2033, 3), amount |-> 6 * MoneyScale]}

\* how many withdrawals an input of these holds at most
MaxPlannedWithdrawals == 3

PlannedTranches ==
    {<<[amount |-> 8 * MoneyScale, term |-> "HYSA", reinvestmentOption |-> "",
        reinvestmentTerm |-> ""],
       [amount |-> 10 * MoneyScale, term |-> "12m", reinvestmentOption |-> "newCD",
        reinvestmentTerm |-> "12m"]>>,
     <<[amount |-> 10 * MoneyScale, term |-> "6m", reinvestmentOption |-> "cash",
        reinvestmentTerm |-> "12m"]>>}

PlannedInputs ==
    {[investmentStartDate |-> [given |-> TRUE, text |-> d],
      lumpSum |-> Num(SeqSum([i \in 1..Len(ts) |-> ts[i].amount])),
      taxRate |-> Num(25),
      tranches |-> WithIds(ts, "tranche-"), tranchesGiven |-> TRUE,
      withdrawals |-> WithIds(ws, "withdrawal-"), withdrawalsGiven |-> TRUE,
      interestRates |-> InterestRates, interestRatesGiven |-> TRUE] :
        d \in {DateStr(2025, 1), DateStr(2025, 7)},
        ts \in PlannedTranches,
        ws \in SeqsUpTo(PlannedWithdrawalRows, MaxPlannedWithdrawals)}

InitPlanned ==
    /\ input \in PlannedInputs
    /\ reinvestmentCounter = 0
    /\ pc = "idle"
    /\ run = IdleRun
    /\ runs = <<>>
    /\ app = NoApp
    /\ rateCall = NoRateCall

SpecPlanned == InitPlanned /\ [][Next]_vars

\* the withdrawals of the input whose date parses
ValidlyDated == {w \in 1..Len(input.withdrawals) : input.withdrawals[w].date.ok}

\* the amounts of the validly dated withdrawals of the set, summed
WithdrawnIn(ws) ==
    SeqSum([w \in 1..Len(input.withdrawals) |->
                IF w \in ws THEN input.withdrawals[w].amount ELSE 0])

\* the validly dated withdrawals of a calendar year
DatedIn(year) == {w \in ValidlyDated : input.withdrawals[w].date.y = year}

\* C29: every withdrawal with a valid date is counted in the withdrawalAmount of
\* exactly one year record, the one of its calendar year, and a withdrawal with a
\* missing or unparseable date in none: each record's withdrawalAmount is the sum of
\* the amounts of the validly dated withdrawals of its year, every such year has
\* exactly one record, and the withdrawalAmount summed over the records is the sum of
\* the amounts of the validly dated withdrawals
C29_WithdrawalsCountedOnce ==
    /\ Emitted => LastRecord.withdrawalAmount = WithdrawnIn(DatedIn(LastRecord.year))
    /\ \A i \in ReturnedRuns :
            /\ \A k \in 1..Len(YearsOf(i)) :
                    YearsOf(i)[k].withdrawalAmount = WithdrawnIn(DatedIn(YearsOf(i)[k].year))
            /\ \A w \in ValidlyDated :
                    Cardinality({k \in 1..Len(YearsOf(i)) :
                                    YearsOf(i)[k].year = input.withdrawals[w].date.y}) = 1
            /\ TotalOverYears(i, "withdrawalAmount") = WithdrawnIn(ValidlyDated)

\* a returned call on two withdrawals of one year and one without a usable date:
\* the year's record holds the two amounts, the other records nothing
C29_Witness ==
    \E i \in ReturnedRuns :
        /\ Len(input.withdrawals) = 3
        /\ Cardinality(ValidlyDated) = 2
        /\ Cardinality(DatedIn(2026)) = 2
        /\ \E k \in 1..Len(YearsOf(i)) :
                /\ YearsOf(i)[k].year = 2026
                /\ YearsOf(i)[k].withdrawalAmount = WithdrawnIn(ValidlyDated)
                /\ YearsOf(i)[k].withdrawalAmount > 4 * MoneyScale
        /\ TotalOverYears(i, "withdrawalAmount") = WithdrawnIn(ValidlyDated)

-----------------------------------------------------------------------------
(* Value from one year to the next *)

\* a record's total portfolio value net of the shortfall the year ends with
NetValue(record) == record.totalPortfolioValue - record.yearEndShortfallAmount

\* the net value the year of the last record started from: the net value of the
\* record before it, the sum of the allocation amounts for the first record
NetValueBefore ==
    IF Len(run.projection) >= 2 THEN NetValue(PreviousRecord) ELSE AllocatedSum

\* the principal of the tranches the year created that mature in the same year
CreatedAndDueSameYear ==
    SeqSum([k \in 1..Len(run.it.newlyReinvestedTranches) |->
                IF getFullYear(run.it.newlyReinvestedTranches[k].maturityDate) = LastRecord.year
                    THEN run.it.newlyReinvestedTranches[k].amount ELSE 0])

\* C30 as stated: no value is created or lost between years: for every record, the
\* total portfolio value net of the year-end shortfall is the net value of the year
\* before (the sum of the allocation amounts for the first record) plus the yearly
\* interest less the taxes due and the withdrawals, within the tolerance, for every
\* combination of elections, reinvestment terms and maturity months
C30_ValueConserved ==
    Emitted =>
        Abs(NetValue(LastRecord)
            - (NetValueBefore + LastRecord.yearlyInterest - LastRecord.taxesDue
               - LastRecord.withdrawalAmount)) <= Tolerance

\* the part of C30 the program keeps: the same balance holds once the principal of
\* the tranches that a year created and that mature in that same year is counted as
\* lost in that year
C30_ConservedButSameYear ==
    Emitted =>
        NetValue(LastRecord) =
            NetValueBefore + LastRecord.yearlyInterest - LastRecord.taxesDue
            - LastRecord.withdrawalAmount - CreatedAndDueSameYear

-----------------------------------------------------------------------------
(* Where the maturing value goes; the cash the record reports *)

\* the part of the year's maturing value that was added to cash, read off the
\* record: the reported cash inflow less the cash carried in and the HYSA interest
CashPartOfRecord ==
    LastRecord.cashAvailableStart - run.it.cashBalanceIn - LastRecord.interestFromHYSA

\* the maturing tranches of the year whose value went to `option`: under a carried
\* shortfall above the tolerance all of them to cash, else each to its honoured election
SentTo(option) ==
    IF run.it.carriedShortfall > Tolerance
        THEN (IF option = "cash" THEN 1..Len(run.it.maturing) ELSE {})
        ELSE {k \in 1..Len(run.it.maturing) : Honoured(run.it.maturing[k]) = option}

\* the maturity values of the maturing tranches of the set, summed
MaturedValueOf(ks) ==
    SeqSum([k \in 1..Len(run.it.maturing) |->
                IF k \in ks THEN run.it.maturing[k].valueAtMaturity ELSE 0])

\* C31: in every year record the maturing value is the reinvested value plus the
\* part added to cash that year, the reinvested value being the value moved to the
\* HYSA plus the principals of the tranches created that year; each maturing
\* tranche's value goes to exactly one of cash, the HYSA and one new tranche
C31_MaturingValuePartitioned ==
    Emitted =>
        /\ LastRecord.maturingValue = LastRecord.reinvestedValue + run.it.cashFromMaturingThisYear
        /\ CashPartOfRecord = run.it.cashFromMaturingThisYear
        /\ LastRecord.reinvestedValue =
                run.it.hysaValueReinvestedThisYear
                + SeqSum([k \in 1..Len(run.it.newlyReinvestedTranches) |->
                            run.it.newlyReinvestedTranches[k].amount])
        /\ run.it.cashFromMaturingThisYear = MaturedValueOf(SentTo("cash"))
        /\ run.it.hysaValueReinvestedThisYear = MaturedValueOf(SentTo("hysa"))
        /\ Len(run.it.newlyReinvestedTranches) = Cardinality(SentTo("newCD"))
        /\ LastRecord.reinvestedValue - run.it.hysaValueReinvestedThisYear
                = MaturedValueOf(SentTo("newCD"))
        /\ Cardinality(SentTo("cash")) + Cardinality(SentTo("hysa"))
                + Cardinality(SentTo("newCD")) = Len(run.it.maturing)

\* a year in which two tranches mature, one placed in a new CD and one held as cash
C31_Witness ==
    /\ Emitted
    /\ Len(run.it.maturing) = 2
    /\ Len(run.it.newlyReinvestedTranches) = 1
    /\ run.it.cashFromMaturingThisYear > 0
    /\ LastRecord.reinvestedValue > 0
    /\ LastRecord.maturingValue > LastRecord.reinvestedValue
    /\ run.it.maturing[1].interestEarned > 0

\* C32 as stated: the cashAvailableStart of a record is the cash available that the
\* year's net flow was computed from (the starting cash after the carried shortfall
\* is deducted, plus the cash from maturities, plus the HYSA interest), so that
\* cashAvailableStart - withdrawalAmount - taxesDue + hysaWithdrawalToCoverShortfall
\* = endOfYearCash - yearEndShortfallAmount
C32_ReportedCashIsUsedCash ==
    Emitted =>
        /\ LastRecord.cashAvailableStart = run.it.cashAvailableThisYear
        /\ LastRecord.cashAvailableStart - LastRecord.withdrawalAmount - LastRecord.taxesDue
                + LastRecord.hysaWithdrawalToCoverShortfall
            = LastRecord.endOfYearCash - LastRecord.yearEndShortfallAmount

\* the part of C32 the program keeps: the reported figure is the cash available of
\* the net flow with the carried shortfall left in, and the identity holds once the
\* carried shortfall is deducted from it
C32_ReportedCashLessCarried ==
    Emitted =>
        /\ LastRecord.cashAvailableStart - run.it.carriedShortfall = run.it.cashAvailableThisYear
        /\ LastRecord.cashAvailableStart - run.it.carriedShortfall
                - LastRecord.withdrawalAmount - LastRecord.taxesDue
                + LastRecord.hysaWithdrawalToCoverShortfall
            = LastRecord.endOfYearCash - LastRecord.yearEndShortfallAmount

-----------------------------------------------------------------------------
(* Ids of the tranches: rows that come with ids of the caller's choosing *)

\* ids a caller may give to allocation rows: plain ones, and ones of the shape the
\* engine gives to the tranches it creates
CallerIds == {"a", "b", "a-reinvest-0", "a-reinvest-1"}

\* two CD rows under ids of the caller: the first reinvested in a new CD when it
\* matures after six months, the second running for one or two years
IdTranches ==
    {<<[id |-> ids[1], amount |-> 10 * MoneyScale, term |-> "6m",
        reinvestmentOption |-> "newCD", reinvestmentTerm |-> "12m"],
       [id |-> ids[2], amount |-> 10 * MoneyScale, term |-> t2,
        reinvestmentOption |-> o2, reinvestmentTerm |-> "12m"]>> :
        ids \in {p \in CallerIds \X CallerIds : p[1] # p[2]}, t2 \in {"12m", "24m"},
        o2 \in {"cash", "newCD"}}

IdInputs ==
    {[investmentStartDate |-> [given |-> TRUE, text |-> d],
      lumpSum |-> Num(20 * MoneyScale),
      taxRate |-> Num(25),
      tranches |-> ts, tranchesGiven |-> TRUE,
      withdrawals |-> <<>>, withdrawalsGiven |-> TRUE,
      interestRates |-> InterestRates, interestRatesGiven |-> TRUE] :
        d \in {DateStr(2025, 1), DateStr(2025, 7)},
        ts \in IdTranches}

InitIds ==
    /\ input \in IdInputs
    /\ reinvestmentCounter = 0
    /\ pc = "idle"
    /\ run = IdleRun
    /\ runs = <<>>
    /\ app = NoApp
    /\ rateCall = NoRateCall

SpecIds == InitIds /\ [][Next]_vars

\* the ids of the allocation rows are pairwise distinct
RowIdsDistinct ==
    \A i, j \in 1..Len(input.tranches) :
        i # j => input.tranches[i].id # input.tranches[j].id

\* the ids of a sequence of tranches or of ids are pairwise distinct
Distinct(ids) == \A i, j \in 1..Len(ids) : i # j => ids[i] # ids[j]

RECURSIVE CreatedByCalls(_)
\* the ids given to created tranches by the first n completed calls
CreatedByCalls(n) == IF n = 0 THEN <<>> ELSE CreatedByCalls(n - 1) \o runs[n].newIds

\* the ids given by the completed calls and by the call in progress, in the order
\* they were given
AllCreatedIds == CreatedByCalls(Len(runs)) \o run.newIds

\* C33 as stated: given allocation rows with pairwise distinct ids, at every point
\* of every call, and across the successive calls of one process, the tranches of
\* the active set have pairwise distinct ids
C33_ActiveIdsDistinct ==
    (RowIdsDistinct /\ pc = "loop") =>
        Distinct([k \in 1..Len(run.activeCdTranches) |-> run.activeCdTranches[k].id])

\* the part of C33 the program keeps: the ids given to created tranches are built
\* from a sequence value that is never reused, so they are pairwise distinct within
\* a call and across the calls of one process, and the counter has grown by one for
\* each of them
C33_CreatedIdsDistinct ==
    /\ Distinct(AllCreatedIds)
    /\ reinvestmentCounter = Len(AllCreatedIds)

-----------------------------------------------------------------------------
(* The App component (src/App.js): the form's state, its handlers, and the *)
(* two effects that follow every render                                    *)

\* null, for calculationError
NoMessage == [isNull |-> TRUE, prefix |-> "", rest |-> ""]

\* a message, split after the prefix that startsWith looks for
Message(prefix, rest) == [isNull |-> FALSE, prefix |-> prefix, rest |-> rest]

\* calculationError?.startsWith(prefix): falsy on null
startsWith(message, prefix) == ~message.isNull /\ message.prefix = prefix

\* formatCurrency (lines 27-35) on a number: dollars and two digits of cents
\* (amounts below 1,000 take no group separator)
formatCurrency(value) ==
    LET cents == (value + MoneyScale \div 200) \div (MoneyScale \div 100)
    IN  "$" \o ToString(cents \div 100) \o "."
            \o (IF cents % 100 < 10 THEN "0" ELSE "") \o ToString(cents % 100)

\* the message of line 71
PleaseFill == Message("Please", " fill in Start Date, Lump Sum, and a valid Tax Rate.")

\* the message of line 82
PleaseAdd ==
    Message("Please", " add at least one investment tranche to allocate the lump sum.")

\* the message of line 94
WarningMessage(numAllocatedAmount, numLumpSum) ==
    Message("Warning:", " Allocated amount (" \o formatCurrency(numAllocatedAmount)
                        \o ") doesn't match Lump Sum (" \o formatCurrency(numLumpSum)
                        \o "). Calculation runs on allocated amount.")

\* the message of line 115
CalculationErrorMessage(error) == Message("Calculation Error:", " " \o error)

\* the message of line 130
UnexpectedErrorMessage == Message("An unexpected error occurred:", " exception")

\* Number(x) || 0
NumberOr0(x) == IF ToNumber(x).isNum THEN ToNumber(x).v ELSE 0

generateTrancheId(trancheIdCounter) == "tranche-" \o ToString(trancheIdCounter)

generateWithdrawalId(withdrawalIdCounter) == "withdrawal-" \o ToString(withdrawalIdCounter)

\* the sum of the effect of lines 61-65
totalAllocated(tranches) ==
    SeqSum([i \in 1..Len(tranches) |-> NumberOr0(tranches[i].amount)])

\* the object runCalculation passes to calculateProjections (lines 104-111), with
\* the conversions the engine applies to the rows (Number(...) || 0 at lines 168
\* and 388, parseDateString at line 385)
CallArguments(s) ==
    [investmentStartDate |-> s.investmentStartDate,
     lumpSum |-> Num(NumberOr0(s.lumpSum)),
     taxRate |-> Num(NumberOr0(s.taxRate)),
     tranches |-> [i \in 1..Len(s.tranches) |->
                    [s.tranches[i] EXCEPT !.amount = NumberOr0(s.tranches[i].amount)]],
     tranchesGiven |-> TRUE,
     withdrawals |-> [i \in 1..Len(s.withdrawals) |->
                    [s.withdrawals[i] EXCEPT !.amount = NumberOr0(s.withdrawals[i].amount)]],
     withdrawalsGiven |-> TRUE,
     interestRates |-> InterestRates, interestRatesGiven |-> TRUE]

\* the year loop of calculateProjections run to its end (lines 240-483)
RECURSIVE YearLoop(_, _, _)
\* the loop after one iteration has ended as `res`
YearLoopAfter(res, inp) ==
    IF res.threw
        THEN [outcome |-> "threw", result |-> ErrorResult("exception"),
              counter |-> res.counter]
        ELSE YearLoop(res.locals, inp, res.counter)

YearLoop(r, inp, counter) ==
    IF r.year > r.maxYear
        THEN [outcome |-> "ok", result |-> SuccessResult(r, inp), counter |-> counter]
        ELSE YearLoopAfter(YearIteration(r, inp, counter), inp)

\* one whole call of calculateProjections without a rateScenario (lines 115-483):
\* how it ends, what it returns, and the reinvestment counter after it
calculateProjections(inp, counter) ==
    IF ValidationError(inp) # ""
        THEN [outcome |-> "error", result |-> ErrorResult(ValidationError(inp)),
              counter |-> counter]
    ELSE IF InitialTranchesThrow(inp)
        THEN [outcome |-> "threw", result |-> ErrorResult("exception"), counter |-> counter]
    ELSE YearLoop(FirstLocals(inp, ScenarioParameter(Undefined)), inp, counter)

\* projectionResults after setProjectionResults(results)
ResultsShown(result) == [projectionYears |-> result.projectionYears, isNull |-> FALSE,
                         hasShortfall |-> result.hasShortfall, totals |-> result.totals]

\* the guard of line 71 on the state the callback closed over
FormIncomplete(s) ==
    \/ ~s.investmentStartDate.given
    \/ s.lumpSum = NotNum
    \/ s.taxRate = NotNum
    \/ MissingOrNaN(s.taxRate)

\* allocationMismatch of line 88, on the allocatedAmount the callback closed over
AllocationMismatch(s) == Abs(s.allocatedAmount - NumberOr0(s.lumpSum)) > Tolerance

\* calculationError as lines 92-98 leave it queued
AfterAllocationCheck(s) ==
    IF AllocationMismatch(s) /\ Len(s.tranches) > 0
        THEN WarningMessage(s.allocatedAmount, NumberOr0(s.lumpSum))
    ELSE IF startsWith(s.calculationError, "Warning:")
            /\ (~AllocationMismatch(s) \/ Len(s.tranches) = 0)
        THEN NoMessage
    ELSE s.calculationError

\* AfterCall with the three guards on the closed-over calculationError inverted
AfterCall_GuardInverted(s, queued, call) ==
    [calculationError |->
        IF ~startsWith(s.calculationError, "Warning:") THEN queued
        ELSE IF call.outcome = "error" THEN CalculationErrorMessage(call.result.error)
        ELSE IF call.outcome = "threw" THEN UnexpectedErrorMessage
        ELSE NoMessage,
     projectionResults |->
        IF call.outcome = "ok" THEN ResultsShown(call.result) ELSE NoProjectionResults,
     counter |-> call.counter]

\* lines 101-134: the setters called after calculateProjections has ended; each
\* guard reads the calculationError the callback closed over, and the last
\* setCalculationError of the batch is the one that stays
AfterCall(s, queued, call) ==
    [calculationError |->
        IF startsWith(s.calculationError, "Warning:") THEN queued
        ELSE IF call.outcome = "error" THEN CalculationErrorMessage(call.result.error)
        ELSE IF call.outcome = "threw" THEN UnexpectedErrorMessage
        ELSE NoMessage,
     projectionResults |->
        IF call.outcome = "ok" THEN ResultsShown(call.result) ELSE NoProjectionResults,
     counter |-> call.counter]

\* runCalculation (lines 69-135) on the state s of the render that created it:
\* calculationError and projectionResults once the batch of setter calls is
\* applied, and the engine's reinvestment counter
runCalculation(s, counter) ==
    IF FormIncomplete(s)
        THEN [calculationError |-> PleaseFill, projectionResults |-> NoProjectionResults,
              counter |-> counter]
    ELSE IF Len(s.tranches) = 0 /\ NumberOr0(s.lumpSum) > 0
        THEN [calculationError |-> PleaseAdd, projectionResults |-> NoProjectionResults,
              counter |-> counter]
    ELSE AfterCall(s, AfterAllocationCheck(s),
                   calculateProjections(CallArguments(s), counter))

\* how many user events one session of the form holds in this model
MaxEvents == 2

\* no user event yet
NoEvent == [handler |-> "", id |-> "", field |-> "", tranchesBefore |-> <<>>,
            withdrawalsBefore |-> <<>>]

\* the component after its first render (lines 39-58), before the effects of that
\* render have run. The amounts are a thousandth of the source's (50 for 50000),
\* which keeps the engine's products within TLC's integers. The array literals of
\* lines 44-53 have taken two ids of each counter. `events`, `flushes`, `event`,
\* `removedTrancheIds`, `removedWithdrawalIds` and `startedWith` are history
Mounted ==
    [mounted |-> TRUE,
     investmentStartDate |-> [given |-> TRUE, text |-> DateStr(2025, 1)],
     lumpSum |-> Num(100 * MoneyScale),
     taxRate |-> Num(25),
     tranches |-> <<[id |-> generateTrancheId(0), amount |-> Num(50 * MoneyScale),
                     term |-> "12m", reinvestmentOption |-> "cash",
                     reinvestmentTerm |-> "12m"],
                    [id |-> generateTrancheId(1), amount |-> Num(50 * MoneyScale),
                     term |-> "HYSA", reinvestmentOption |-> "",
                     reinvestmentTerm |-> ""]>>,
     withdrawals |-> <<[id |-> generateWithdrawalId(0), date |-> DateStr(2026, 9),
                        amount |-> Num(20 * MoneyScale)],
                       [id |-> generateWithdrawalId(1), date |-> DateStr(2027, 9),
                        amount |-> Num(20 * MoneyScale)]>>,
     trancheIdCounter |-> 2,
     withdrawalIdCounter |-> 2,
     projectionResults |-> NoProjectionResults,
     calculationError |-> NoMessage,
     allocatedAmount |-> 0,
     allocPending |-> TRUE,
     calcPending |-> TRUE,
     events |-> 0,
     flushes |-> 0,
     event |-> NoEvent,
     removedTrancheIds |-> {},
     removedWithdrawalIds |-> {},
     startedWith |-> NoMessage]

\* a render of App: the array literals of lines 44-53 are evaluated again, and
\* their ids are dropped by useState
Render(s) ==
    [s EXCEPT !.trancheIdCounter = @ + 2, !.withdrawalIdCounter = @ + 2]

\* the render that follows a user event, the effects it makes due (the effect of
\* line 61 when tranches is a new array, the effect of line 139 when a dependency
\* of runCalculation is new), and the history of the event
AfterEvent(s, handler, id, field) ==
    Render([s EXCEPT !.allocPending = @ \/ s.tranches # app.tranches,
                     !.calcPending = TRUE,
                     !.events = @ + 1,
                     !.flushes = 0,
                     !.event = [handler |-> handler, id |-> id, field |-> field,
                                tranchesBefore |-> app.tranches,
                                withdrawalsBefore |-> app.withdrawals]])

\* what the engine and the handlers leave alone while the form is used
EngineIdle == UNCHANGED <<input, reinvestmentCounter, pc, run, runs, rateCall>>

UserEvent == app.mounted /\ app.events < MaxEvents

IdsOf(rows) == {rows[i].id : i \in 1..Len(rows)}

\* lines 200-208: the three inputs above the rows
setInvestmentStartDate(value) ==
    /\ UserEvent
    /\ value # app.investmentStartDate
    /\ app' = AfterEvent([app EXCEPT !.investmentStartDate = value],
                         "setInvestmentStartDate", "", "")
    /\ EngineIdle

setLumpSum(value) ==
    /\ UserEvent
    /\ value # app.lumpSum
    /\ app' = AfterEvent([app EXCEPT !.lumpSum = value], "setLumpSum", "", "")
    /\ EngineIdle

setTaxRate(value) ==
    /\ UserEvent
    /\ value # app.taxRate
    /\ app' = AfterEvent([app EXCEPT !.taxRate = value], "setTaxRate", "", "")
    /\ EngineIdle

\* lines 146-152, called by the controls of an existing row with a new value
handleTrancheChange(id, field, value) ==
    /\ UserEvent
    /\ \E i \in 1..Len(app.tranches) :
            app.tranches[i].id = id /\ app.tranches[i][field] # value
    /\ app' = AfterEvent(
                [app EXCEPT !.tranches =
                    [i \in 1..Len(app.tranches) |->
                        IF app.tranches[i].id = id
                            THEN [app.tranches[i] EXCEPT ![field] = value]
                            ELSE app.tranches[i]]],
                "handleTrancheChange", id, field)
    /\ EngineIdle

\* addTranche with the id taken from the number of rows
addTranche_IdFromLength ==
    /\ UserEvent
    /\ app' = AfterEvent(
                [app EXCEPT !.tranches =
                    Append(@, [id |-> generateTrancheId(Len(app.tranches)),
                               amount |-> Str("", Num(0)), term |-> "12m",
                               reinvestmentOption |-> "cash",
                               reinvestmentTerm |-> "12m"])],
                "addTranche", generateTrancheId(Len(app.tranches)), "")
    /\ EngineIdle

\* lines 154-160
addTranche ==
    /\ UserEvent
    /\ app' = AfterEvent(
                [app EXCEPT !.tranches =
                    Append(@, [id |-> generateTrancheId(app.trancheIdCounter),
                               amount |-> Str("", Num(0)), term |-> "12m",
                               reinvestmentOption |-> "cash",
                               reinvestmentTerm |-> "12m"]),
                            !.trancheIdCounter = @ + 1],
                "addTranche", generateTrancheId(app.trancheIdCounter), "")
    /\ EngineIdle

\* lines 162-164, called by the button of an existing row
removeTranche(id) ==
    /\ UserEvent
    /\ id \in IdsOf(app.tranches)
    /\ app' = AfterEvent(
                [app EXCEPT !.tranches =
                    FilterSeq(@, [i \in 1..Len(app.tranches) |-> app.tranches[i].id # id]),
                            !.removedTrancheIds = @ \cup {id}],
                "removeTranche", id, "")
    /\ EngineIdle

\* lines 166-172
handleWithdrawalChange(id, field, value) ==
    /\ UserEvent
    /\ \E i \in 1..Len(app.withdrawals) :
            app.withdrawals[i].id = id /\ app.withdrawals[i][field] # value
    /\ app' = AfterEvent(
                [app EXCEPT !.withdrawals =
                    [i \in 1..Len(app.withdrawals) |->
                        IF app.withdrawals[i].id = id
                            THEN [app.withdrawals[i] EXCEPT ![field] = value]
                            ELSE app.withdrawals[i]]],
                "handleWithdrawalChange", id, field)
    /\ EngineIdle

\* lines 174-179
addWithdrawal ==
    /\ UserEvent
    /\ app' = AfterEvent(
                [app EXCEPT !.withdrawals =
                    Append(@, [id |-> generateWithdrawalId(app.withdrawalIdCounter),
                               date |-> BadDateStr, amount |-> Str("", Num(0))]),
                            !.withdrawalIdCounter = @ + 1],
                "addWithdrawal", generateWithdrawalId(app.withdrawalIdCounter), "")
    /\ EngineIdle

\* lines 181-183
removeWithdrawal(id) ==
    /\ UserEvent
    /\ id \in IdsOf(app.withdrawals)
    /\ app' = AfterEvent(
                [app EXCEPT !.withdrawals =
                    FilterSeq(@, [i \in 1..Len(app.withdrawals) |->
                                    app.withdrawals[i].id # id]),
                            !.removedWithdrawalIds = @ \cup {id}],
                "removeWithdrawal", id, "")
    /\ EngineIdle

\* what the callback of line 139 reports when the effect is not due
NotRun(s, counter) ==
    [calculationError |-> s.calculationError, projectionResults |-> s.projectionResults,
     counter |-> counter]

\* the state after the effects of one render: the setter calls of both effects
\* are applied in one batch; the effect of line 139 is due again when a state among
\* runCalculation's dependencies has a new value (allocatedAmount, calculationError),
\* and the component renders again when any state has
AfterEffects(s, allocated, ran) ==
    LET settled == [s EXCEPT !.allocatedAmount = allocated,
                             !.calculationError = ran.calculationError,
                             !.projectionResults = ran.projectionResults,
                             !.allocPending = FALSE,
                             !.calcPending = (allocated # s.allocatedAmount
                                              \/ ran.calculationError # s.calculationError),
                             !.flushes = @ + 1]
    IN  IF allocated # s.allocatedAmount \/ ran.calculationError # s.calculationError
            \/ ~ran.projectionResults.isNull \/ ~s.projectionResults.isNull
            THEN Render(settled)
            ELSE settled

\* the passive effects of one render, in the order of their declaration: the sum
\* of lines 61-65 when tranches has changed, then runCalculation (lines 139-142)
\* when it was re-created, both on the state of that render
EffectsLeave(s, allocated, ran) ==
    /\ app' = AfterEffects(s, allocated, ran)
    /\ reinvestmentCounter' = ran.counter

Effects ==
    /\ app.mounted
    /\ app.allocPending \/ app.calcPending
    /\ EffectsLeave(app,
            IF app.allocPending THEN totalAllocated(app.tranches)
                                ELSE app.allocatedAmount,
            IF app.calcPending THEN runCalculation(app, reinvestmentCounter)
                               ELSE NotRun(app, reinvestmentCounter))
    /\ UNCHANGED <<input, pc, run, runs, rateCall>>

\* what the user can enter
StartDateValues ==
    {[given |-> FALSE, text |-> BadDateStr], [given |-> TRUE, text |-> BadDateStr]}

LumpSumValues == {Str("90", Num(90 * MoneyScale)), Str("", Num(0))}

TaxRateValues == {Str("", Num(0))}

AmountValues == {Str("", Num(0)), Str("40", Num(40 * MoneyScale))}

TermValues == {"HYSA", "6m"}

ReinvestmentOptionValues == {"hysa", "newCD"}

ReinvestmentTermValues == {"6m"}

WithdrawalDateValues == {BadDateStr, DateStr(2025, 9)}

WithdrawalAmountValues == {Str("60", Num(60 * MoneyScale))}

\* the rows that show the reinvestment option (line 246), and those that show the
\* reinvestment term as well (line 261)
CdTermRows(tranches) ==
    FilterSeq(tranches, [i \in 1..Len(tranches) |-> tranches[i].term # "HYSA"])

NewCdRows(tranches) ==
    FilterSeq(tranches, [i \in 1..Len(tranches) |->
                            tranches[i].term # "HYSA"
                            /\ tranches[i].reinvestmentOption = "newCD"])

InitApp ==
    /\ app = Mounted
    /\ input = UnallocatedInput
    /\ reinvestmentCounter = 0
    /\ pc = "idle"
    /\ run = IdleRun
    /\ runs = << >>
    /\ rateCall = NoRateCall

NextApp ==
    \/ Effects
    \/ \E value \in StartDateValues : setInvestmentStartDate(value)
    \/ \E value \in LumpSumValues : setLumpSum(value)
    \/ \E value \in TaxRateValues : setTaxRate(value)
    \/ \E id \in IdsOf(app.tranches), value \in AmountValues :
            handleTrancheChange(id, "amount", value)
    \/ \E id \in IdsOf(app.tranches), value \in TermValues :
            handleTrancheChange(id, "term", value)
    \/ \E id \in IdsOf(CdTermRows(app.tranches)), value \in ReinvestmentOptionValues :
            handleTrancheChange(id, "reinvestmentOption", value)
    \/ \E id \in IdsOf(NewCdRows(app.tranches)), value \in ReinvestmentTermValues :
            handleTrancheChange(id, "reinvestmentTerm", value)
    \/ addTranche
    \/ \E id \in IdsOf(app.tranches) : removeTranche(id)
    \/ \E id \in IdsOf(app.withdrawals), value \in WithdrawalDateValues :
            handleWithdrawalChange(id, "date", value)
    \/ \E id \in IdsOf(app.withdrawals), value \in WithdrawalAmountValues :
            handleWithdrawalChange(id, "amount", value)
    \/ addWithdrawal
    \/ \E id \in IdsOf(app.withdrawals) : removeWithdrawal(id)

SpecApp == InitApp /\ [][NextApp]_vars

-----------------------------------------------------------------------------
(* Claims about the App component *)

\* no effect is due: runCalculation and the re-runs it triggered are over
Settled == app.mounted /\ ~app.allocPending /\ ~app.calcPending

\* C34's case: the form passes the guards of lines 71 and 81, the allocated total
\* differs from the lump sum by more than 0.01 and there is a tranche
MismatchedAllocation ==
    /\ Settled
    /\ ~FormIncomplete(app)
    /\ Len(app.tranches) > 0
    /\ AllocationMismatch(app)

\* C34: once the effects have settled on a form whose allocated total differs from
\* the lump sum, with at least one tranche, calculationError is the 'Warning:'
\* message, and the results of a successful calculation are shown with it
C34_WarningKept ==
    MismatchedAllocation =>
        /\ startsWith(app.calculationError, "Warning:")
        /\ calculateProjections(CallArguments(app), 0).outcome = "ok"
                => ~app.projectionResults.isNull

\* what the component does instead: from its mount on, no render shows the warning;
\* a settled mismatch shows the results and no message, or the calculation's error
C34_WarningNeverShown ==
    /\ ~startsWith(app.calculationError, "Warning:")
    /\ MismatchedAllocation =>
        IF calculateProjections(CallArguments(app), 0).outcome = "ok"
            THEN app.calculationError = NoMessage /\ ~app.projectionResults.isNull
            ELSE /\ app.calculationError.prefix
                        \in {"Calculation Error:", "An unexpected error occurred:"}
                 /\ app.projectionResults.isNull

C34_SettledMismatch == MismatchedAllocation /\ app.events > 0

\* C35's case, the cycle of runCalculation and the effect on fixed inputs, from
\* every calculationError the claim names: forms the user can have entered, each
\* with every message of runCalculation in calculationError, with the allocated
\* total of the rows or the 0 of line 58, and both effects due
SettleForms ==
    {[Mounted EXCEPT !.investmentStartDate = d, !.lumpSum = l, !.tranches = ts] :
        d \in {Mounted.investmentStartDate} \cup StartDateValues,
        l \in {Mounted.lumpSum} \cup LumpSumValues,
        ts \in {Mounted.tranches, SubSeq(Mounted.tranches, 1, 1), <<>>}}

SettleMessages ==
    {NoMessage, PleaseFill, PleaseAdd, UnexpectedErrorMessage,
     CalculationErrorMessage("Invalid Investment Start Date"),
     WarningMessage(100 * MoneyScale, 90 * MoneyScale),
     WarningMessage(0, 100 * MoneyScale)}

SettleStarts ==
    {[f EXCEPT !.calculationError = m, !.startedWith = m, !.allocatedAmount = a] :
        f \in SettleForms, m \in SettleMessages,
        a \in {0, 50 * MoneyScale, 100 * MoneyScale}}

InitSettle ==
    /\ app \in SettleStarts
    /\ input = UnallocatedInput
    /\ reinvestmentCounter = 0
    /\ pc = "idle"
    /\ run = IdleRun
    /\ runs = << >>
    /\ rateCall = NoRateCall

NextSettle == Effects

SpecSettle == InitSettle /\ [][NextSettle]_vars

\* C35: on fixed inputs the effects run at most four times, whatever
\* calculationError held at the start: after the fourth run no effect is due, the
\* error state has stopped changing and runCalculation is not run again
C35_CycleSettles ==
    /\ app.flushes <= 4
    /\ app.flushes = 4 => Settled

\* the longest cycle: a stale warning is kept, cleared, replaced by the engine's
\* error, and the fourth run changes nothing
C35_Witness ==
    /\ Settled
    /\ app.flushes = 4
    /\ app.calculationError # app.startedWith
    /\ startsWith(app.startedWith, "Warning:")

\* the rows' ids are pairwise distinct
DistinctIds(rows) ==
    \A i, j \in 1..Len(rows) : rows[i].id = rows[j].id => i = j

\* `after` is `before` with the one field of the one row replaced, if at all
ChangedOnly(before, after, id, field) ==
    /\ Len(after) = Len(before)
    /\ \A i \in 1..Len(before) :
        IF before[i].id = id
            THEN \A f \in DOMAIN before[i] \ {field} : after[i][f] = before[i][f]
            ELSE after[i] = before[i]

\* `after` is `before` without the row of that id, the others in their order
RemovedOnly(before, after, id) ==
    \E k \in 1..Len(before) :
        /\ before[k].id = id
        /\ Len(after) = Len(before) - 1
        /\ \A i \in 1..Len(after) : after[i] = IF i < k THEN before[i] ELSE before[i + 1]

\* `after` is `before` followed by one row, whose id no row has or had
AddedLast(before, after, id, removed) ==
    /\ Len(after) = Len(before) + 1
    /\ SubSeq(after, 1, Len(before)) = before
    /\ after[Len(after)].id = id
    /\ id \notin IdsOf(before) \cup removed

\* C36: after any sequence of the six handlers the tranche ids are pairwise
\* distinct and so are the withdrawal ids, no row holds the id of a removed row,
\* and the last handler has changed, removed or appended the one row of its id
\* and left every other row, and the other list, as they were and in their order
C36_HandlersTouchOneRow ==
    app.mounted =>
        /\ DistinctIds(app.tranches)
        /\ DistinctIds(app.withdrawals)
        /\ IdsOf(app.tranches) \cap app.removedTrancheIds = {}
        /\ IdsOf(app.withdrawals) \cap app.removedWithdrawalIds = {}
        /\ app.event.handler = "handleTrancheChange" =>
            /\ ChangedOnly(app.event.tranchesBefore, app.tranches, app.event.id,
                           app.event.field)
            /\ app.withdrawals = app.event.withdrawalsBefore
        /\ app.event.handler = "removeTranche" =>
            /\ RemovedOnly(app.event.tranchesBefore, app.tranches, app.event.id)
            /\ app.withdrawals = app.event.withdrawalsBefore
        /\ app.event.handler = "addTranche" =>
            /\ AddedLast(app.event.tranchesBefore, app.tranches, app.event.id,
                         app.removedTrancheIds)
            /\ app.withdrawals = app.event.withdrawalsBefore
        /\ app.event.handler = "handleWithdrawalChange" =>
            /\ ChangedOnly(app.event.withdrawalsBefore, app.withdrawals, app.event.id,
                           app.event.field)
            /\ app.tranches = app.event.tranchesBefore
        /\ app.event.handler = "removeWithdrawal" =>
            /\ RemovedOnly(app.event.withdrawalsBefore, app.withdrawals, app.event.id)
            /\ app.tranches = app.event.tranchesBefore
        /\ app.event.handler = "addWithdrawal" =>
            /\ AddedLast(app.event.withdrawalsBefore, app.withdrawals, app.event.id,
                         app.removedWithdrawalIds)
            /\ app.tranches = app.event.tranchesBefore

\* a row is added after the first row was removed: the ids of the rows kept are
\* above the number of rows
C36_Witness ==
    /\ app.mounted
    /\ app.event.handler = "addTranche"
    /\ app.removedTrancheIds = {generateTrancheId(0)}
    /\ Len(app.tranches) = 2
    /\ Settled

====
